---- MODULE Spec2Model ----
(***************************************************************************)
(* The endpoint dispatch subsystem of the gateway: configuration           *)
(* resolution (src/gateway/endpoints.ts), the request handler with its     *)
(* sliding-window rate limiter and sync/async dispatch                     *)
(* (src/gateway/endpoints-http.ts) and the dispatcher that wraps the task  *)
(* runner (src/gateway/server/endpoints.ts).                               *)
(*                                                                         *)
(* Strings on which the code computes (trim, slice, startsWith, Map keys)  *)
(* are sequences of one-character strings.  Optional object fields are     *)
(* fields that may be missing from a record (f \in DOMAIN r).              *)
(***************************************************************************)
EXTENDS Integers, Sequences, FiniteSets, TLC

(***************************************************************************)
(* Bounds of the model.                                                    *)
(***************************************************************************)
\* number of request slots (requests that are in flight at the same time)
MaxInFlight == 2
\* the clock runs from 0 to MaxTicks * TickMs
MaxTicks == 3

(***************************************************************************)
(* Program constants.                                                      *)
(***************************************************************************)
\* rl.maxRequests ?? 60
DefaultMaxRequests == 60
\* rl.windowSeconds ?? 60
DefaultWindowSeconds == 60
\* config.rateLimit.windowSeconds * 1000
MsPerSecond == 1000

\* the result of a step the code leaves undefined (let tokenName, callbackUrl)
Undefined == <<"undefined">>
\* the null snapshot / the null rate limit
Null == [null |-> TRUE]

(***************************************************************************)
(* String helpers (JavaScript String.prototype methods).                   *)
(***************************************************************************)
\* A string is the sequence of its characters; a character is written as the
\* string of length one, or as the name of its code point where it cannot be typed.
\* The characters that trim() removes: WhiteSpace and LineTerminator of ECMAScript
WhiteSpace ==
  { " ", "\t", "\n", "\r", "\f", "U+000B", "U+00A0", "U+1680", "U+2000", "U+2001",
    "U+2002", "U+2003", "U+2004", "U+2005", "U+2006", "U+2007", "U+2008", "U+2009",
    "U+200A", "U+2028", "U+2029", "U+202F", "U+205F", "U+3000", "U+FEFF" }

RECURSIVE TrimStart(_)
TrimStart(s) ==
  IF s # <<>> /\ Head(s) \in WhiteSpace THEN TrimStart(Tail(s)) ELSE s

RECURSIVE TrimEnd(_)
TrimEnd(s) ==
  IF s # <<>> /\ s[Len(s)] \in WhiteSpace
    THEN TrimEnd(SubSeq(s, 1, Len(s) - 1))
    ELSE s

\* s.trim()
Trim(s) == TrimEnd(TrimStart(s))

\* s.startsWith(p)
StartsWith(s, p) == Len(p) <= Len(s) /\ SubSeq(s, 1, Len(p)) = p

\* s.slice(n)
Slice(s, n) == SubSeq(s, n + 1, Len(s))

\* s.replace(/^\/+/, "")
RECURSIVE StripLeadingSlashes(_)
StripLeadingSlashes(s) ==
  IF s # <<>> /\ Head(s) = "/" THEN StripLeadingSlashes(Tail(s)) ELSE s

\* s.replace(/\/+$/, "")
RECURSIVE StripTrailingSlashes(_)
StripTrailingSlashes(s) ==
  IF s # <<>> /\ s[Len(s)] = "/"
    THEN StripTrailingSlashes(SubSeq(s, 1, Len(s) - 1))
    ELSE s

Has(r, f) == f \in DOMAIN r

\* m.set(k, v) on a Map held as a function
MapSet(m, k, v) == [x \in (DOMAIN m) \cup {k} |-> IF x = k THEN v ELSE m[x]]

EmptyMap == [x \in {} |-> <<>>]

(***************************************************************************)
(* Config Resolver: resolveEndpointsConfig.                                *)
(***************************************************************************)
Unnamed == <<"u", "n", "n", "a", "m", "e", "d">>
DefaultBasePath == <<"/", "e", "n", "d", "p", "o", "i", "n", "t", "s">>

\* the inner loop: for (const t of entry.tokens ?? []) ...
RECURSIVE TokenMapOf(_, _)
TokenMapOf(tokens, acc) ==
  IF tokens = <<>> THEN acc
  ELSE LET t == Head(tokens)
           v == IF Has(t, "value") THEN Trim(t.value) ELSE <<>>
           n == IF Has(t, "name") /\ Trim(t.name) # <<>> THEN Trim(t.name) ELSE Unnamed
       IN TokenMapOf(Tail(tokens), IF v # <<>> THEN MapSet(acc, v, n) ELSE acc)

\* the outer loop: for (const entry of raw.entries ?? []) ...
RECURSIVE EntriesOf(_, _)
EntriesOf(raws, acc) ==
  IF raws = <<>> THEN acc
  ELSE LET entry == Head(raws)
           skip == ~Has(entry, "id") \/ Trim(entry.id) = <<>>
           tokenMap == TokenMapOf(IF Has(entry, "tokens") THEN entry.tokens ELSE <<>>,
                                  EmptyMap)
       IN EntriesOf(Tail(raws),
                    IF skip THEN acc
                    ELSE MapSet(acc, Trim(entry.id), [tokenMap |-> tokenMap] @@ entry))

\* let basePath = (raw.basePath ?? "/endpoints").trim(); ...
ResolveBasePath(raw) ==
  LET b0 == Trim(IF Has(raw, "basePath") THEN raw.basePath ELSE DefaultBasePath)
      b1 == IF StartsWith(b0, <<"/">>) THEN b0 ELSE <<"/">> \o b0
  IN StripTrailingSlashes(b1)

\* a resolver of the rate limit that asks for maxRequests
ResolveRateLimitNeedsMax(raw) ==
  IF ~Has(raw, "rateLimit") THEN Null
  ELSE LET rl == raw.rateLimit
           truthy(f) == Has(rl, f) /\ rl[f] # 0
       IN IF truthy("maxRequests")
            THEN [maxRequests |-> rl.maxRequests,
                  windowSeconds |-> IF Has(rl, "windowSeconds") THEN rl.windowSeconds
                                    ELSE DefaultWindowSeconds]
            ELSE Null

\* const rateLimit = rl && (rl.maxRequests || rl.windowSeconds) ? {...} : null
ResolveRateLimit(raw) ==
  IF ~Has(raw, "rateLimit") THEN Null
  ELSE LET rl == raw.rateLimit
           truthy(f) == Has(rl, f) /\ rl[f] # 0
       IN IF truthy("maxRequests") \/ truthy("windowSeconds")
            THEN [maxRequests |-> IF Has(rl, "maxRequests") THEN rl.maxRequests
                                  ELSE DefaultMaxRequests,
                  windowSeconds |-> IF Has(rl, "windowSeconds") THEN rl.windowSeconds
                                    ELSE DefaultWindowSeconds]
            ELSE Null

\* a resolver that takes the feature as enabled unless it is switched off
resolveEndpointsConfigDefaultOn(cfg) ==
  IF ~Has(cfg, "endpoints")
       \/ (Has(cfg.endpoints, "enabled") /\ cfg.endpoints.enabled = FALSE)
    THEN Null
    ELSE LET raw == cfg.endpoints
             entries == EntriesOf(IF Has(raw, "entries") THEN raw.entries ELSE <<>>,
                                  EmptyMap)
         IN IF DOMAIN entries = {} THEN Null
            ELSE [basePath |-> ResolveBasePath(raw),
                  rateLimit |-> ResolveRateLimit(raw),
                  entries |-> entries]

resolveEndpointsConfig(cfg) ==
  IF ~Has(cfg, "endpoints") \/ ~Has(cfg.endpoints, "enabled")
       \/ cfg.endpoints.enabled # TRUE
    THEN Null
    ELSE LET raw == cfg.endpoints
             entries == EntriesOf(IF Has(raw, "entries") THEN raw.entries ELSE <<>>,
                                  EmptyMap)
         IN IF DOMAIN entries = {} THEN Null
            ELSE [basePath |-> ResolveBasePath(raw),
                  rateLimit |-> ResolveRateLimit(raw),
                  entries |-> entries]

(***************************************************************************)
(* Rate Limiter: isRateLimited on the process-wide rateBuckets map.        *)
(* The result is the new map and the returned boolean.                     *)
(***************************************************************************)
\* a filter that keeps the timestamp that lies exactly on the cutoff
FilterAfterInclusive(ts, cutoff) == SelectSeq(ts, LAMBDA t : t >= cutoff)

\* bucket.timestamps.filter((t) => t > cutoff)
FilterAfter(ts, cutoff) == SelectSeq(ts, LAMBDA t : t > cutoff)

\* a limiter that compares with > and so admits one request too many
isRateLimitedOffByOne(buckets, endpointId, maxRequests, windowMs, now) ==
  LET old == IF endpointId \in DOMAIN buckets THEN buckets[endpointId] ELSE <<>>
      kept == SelectSeq(old, LAMBDA t : t > now - windowMs)
  IN IF Len(kept) > maxRequests
       THEN [limited |-> TRUE, buckets |-> MapSet(buckets, endpointId, kept)]
       ELSE [limited |-> FALSE,
             buckets |-> MapSet(buckets, endpointId, Append(kept, now))]

\* a limiter that keeps one bucket for all the endpoints
isRateLimitedShared(buckets, endpointId, maxRequests, windowMs, now) ==
  LET shared == <<"*">>
      old == IF shared \in DOMAIN buckets THEN buckets[shared] ELSE <<>>
      cutoff == now - windowMs
      kept == FilterAfter(old, cutoff)
  IN IF Len(kept) >= maxRequests
       THEN [limited |-> TRUE, buckets |-> MapSet(buckets, shared, kept)]
       ELSE [limited |-> FALSE,
             buckets |-> MapSet(buckets, shared, Append(kept, now))]

isRateLimited(buckets, endpointId, maxRequests, windowMs, now) ==
  LET old == IF endpointId \in DOMAIN buckets THEN buckets[endpointId] ELSE <<>>
      cutoff == now - windowMs
      kept == FilterAfter(old, cutoff)
  IN IF Len(kept) >= maxRequests
       THEN [limited |-> TRUE, buckets |-> MapSet(buckets, endpointId, kept)]
       ELSE [limited |-> FALSE,
             buckets |-> MapSet(buckets, endpointId, Append(kept, now))]

(***************************************************************************)
(* Responses written by the handler (sendJson / res.end).                  *)
(***************************************************************************)
\* String(n) for a non-negative integer
Digit(d) == CASE d = 0 -> "0" [] d = 1 -> "1" [] d = 2 -> "2" [] d = 3 -> "3"
              [] d = 4 -> "4" [] d = 5 -> "5" [] d = 6 -> "6" [] d = 7 -> "7"
              [] d = 8 -> "8" [] OTHER -> "9"

RECURSIVE ToDecimal(_)
ToDecimal(n) ==
  IF n < 10 THEN <<Digit(n)>> ELSE Append(ToDecimal(n \div 10), Digit(n % 10))

MethodNotAllowed == [status |-> 405, allow |-> "POST", text |-> "Method Not Allowed"]

JsonError(status, error) == [status |-> status, ok |-> FALSE, error |-> error]

\* Error.prototype.toString: the name and the message joined by ": ", or the one of
\* them that is not empty
ErrorToString(name, message) ==
  IF message = "" THEN <<name>>
  ELSE IF name = "" THEN <<message>>
  ELSE <<name \o ": ", message>>

\* String(new Error(msg))
ErrorString(msg) == ErrorToString("Error", msg)

\* String(err) in a catch block: err is an Error, or a string that was thrown
ThrownString(err) ==
  IF Has(err, "string") THEN <<err.string>> ELSE ErrorToString(err.name, err.message)

(***************************************************************************)
(* The environment: configurations the loader can supply, requests, bodies *)
(* and outcomes of the task runner and of the callback POST.               *)
(***************************************************************************)
EntryA == [id |-> <<"a">>,
           tokens |-> << [value |-> <<"x">>, name |-> <<"n">>],
                         [value |-> <<"y">>] >>]
EntryB == [id |-> <<"b">>, mode |-> "async"]

CfgWide == [endpoints |-> [enabled |-> TRUE, entries |-> <<EntryA, EntryB>>,
              rateLimit |-> [maxRequests |-> 2, windowSeconds |-> 1]]]
CfgTight == [endpoints |-> [enabled |-> TRUE, entries |-> <<EntryA, EntryB>>,
              rateLimit |-> [maxRequests |-> 1, windowSeconds |-> 1]]]
CfgOpen == [endpoints |-> [enabled |-> TRUE, entries |-> <<EntryA, EntryB>>]]
CfgOff == [endpoints |-> [enabled |-> FALSE, entries |-> <<EntryA, EntryB>>]]

Configs == {CfgWide, CfgTight, CfgOpen, CfgOff}

Methods == {"POST", "GET"}

Pathnames == { DefaultBasePath \o <<"/", "a">>,
               DefaultBasePath \o <<"/", "b">>,
               DefaultBasePath \o <<"/", "z">>,
               DefaultBasePath,
               <<"/", "o">> }

\* req.url: the request target of the request line. The paths above, a target with
\* a "." segment and a query, one whose ".." segment the runtime keeps, one that
\* names a host, and three that new URL cannot parse (without a host, and with a
\* port that is no number)
RequestUrls ==
  Pathnames \cup { DefaultBasePath \o <<"/", ".", "/", "z", "?", "q">>,
                   DefaultBasePath \o <<"/", ".", "x", "/", ".", ".", "/", "a">>,
                   <<"/", "/", "h", "/", "o">>,
                   <<"/", "/">>,
                   <<"h", "t", "t", "p", ":", "/", "/">>,
                   <<"/", "/", "h", ":", "a", "/", "o">> }

\* what extractHookToken finds in the request
Tokens == { Undefined, <<"x">>, <<"y">>, <<"q">> }

\* JSON values
JString(s) == [t |-> "string", s |-> s]
JNumber(n) == [t |-> "number", n |-> n]
JObject(o) == [t |-> "object", o |-> o]
JNull == [t |-> "null"]

\* a callback URL that fetch can post to
CallbackHttp == <<"h", "t", "t", "p", ":", "/", "/", "h", "/", "c">>

\* results of readJsonBody: a failure, or a value: no object, a message that trim()
\* empties, one that it leaves, callback URLs that trim() empties, that are no
\* string, that new URL cannot parse ("c"), one for http and a data: URL
BodyResults ==
  { [ok |-> FALSE, error |-> "payload too large"],
    [ok |-> FALSE, error |-> "invalid json"],
    [ok |-> TRUE, value |-> JNull],
    [ok |-> TRUE, value |-> JObject([message |-> JString(<<" ", "\n">>)])],
    [ok |-> TRUE, value |-> JObject([message |-> JString(<<"U+00A0", "m">>)])],
    [ok |-> TRUE, value |-> JObject([message |-> JString(<<"m">>),
                                     callbackUrl |-> JString(<<"\f">>)])],
    [ok |-> TRUE, value |-> JObject([message |-> JString(<<"m">>),
                                     callbackUrl |-> JNumber(7)])],
    [ok |-> TRUE, value |-> JObject([message |-> JString(<<"m">>),
                                     callbackUrl |-> JString(<<"c", " ">>)])],
    [ok |-> TRUE, value |-> JObject([message |-> JString(<<"m">>),
                                     callbackUrl |-> JString(<<" ">> \o CallbackHttp)])],
    [ok |-> TRUE, value |-> JObject([message |-> JString(<<"m">>),
                                     callbackUrl |->
                                       JString(<<"d", "a", "t", "a", ":", "/", "/", ";",
                                                 "b", "a", "s", "e", "6", "4", ",",
                                                 "A", "A", ":", "/", "A">>)])] }

\* results of runCronIsolatedAgentTurn: a result object (with an output text, with
\* a summary only, with neither; an error result with a message, with an empty
\* one, with none), or a thrown Error or string
RunnerResults ==
  { [status |-> "ok", outputText |-> "hello"],
    [status |-> "ok", summary |-> "sum"],
    [status |-> "skipped"],
    [status |-> "error", error |-> "boom"],
    [status |-> "error", error |-> ""],
    [status |-> "error"],
    [threw |-> [name |-> "Error", message |-> "crash"]],
    [threw |-> [string |-> "oops"]] }

\* fetch: a 2xx response, a non-2xx response, or a rejection (network error)
FetchResults == {"2xx", "non2xx", "neterr"}

TickMs == MsPerSecond \div 2

(***************************************************************************)
(* Steps of createEndpointsRequestHandler.                                 *)
(***************************************************************************)
\* !x for a string or undefined
Falsy(s) == s = Undefined \/ s = <<>>

(***************************************************************************)
(* new URL(input, base): the URL parser of the runtime. What the handler   *)
(* reads is url.pathname, and whether the constructor throws; fetch reads  *)
(* the scheme, the port, whether the URL has credentials and, of a data:   *)
(* URL, url.href. Characters: printable ASCII without "^", the controls    *)
(* and code points named below. Not covered: host labels that start with   *)
(* "xn--", hosts with percent-encoded bytes above 7F or characters outside *)
(* ASCII.                                                                  *)
(***************************************************************************)
\* new URL(...) threw
InvalidUrl == <<"TypeError: ", "Invalid URL">>

LowerAlpha == << "a", "b", "c", "d", "e", "f", "g", "h", "i", "j", "k", "l", "m",
                 "n", "o", "p", "q", "r", "s", "t", "u", "v", "w", "x", "y", "z" >>
UpperAlpha == << "A", "B", "C", "D", "E", "F", "G", "H", "I", "J", "K", "L", "M",
                 "N", "O", "P", "Q", "R", "S", "T", "U", "V", "W", "X", "Y", "Z" >>
DecDigits == << "0", "1", "2", "3", "4", "5", "6", "7", "8", "9" >>
HexUpper == DecDigits \o << "A", "B", "C", "D", "E", "F" >>
\* the characters 20 to 7E in the order of their codes (U+0060 is the backtick)
AsciiPrintable ==
  << " ", "!", "\"", "#", "$", "%", "&", "'", "(", ")", "*", "+", ",", "-", ".", "/" >>
  \o DecDigits \o << ":", ";", "<", "=", ">", "?", "@" >> \o UpperAlpha
  \o << "[", "\\", "]", "^", "_", "U+0060" >> \o LowerAlpha \o << "{", "|", "}", "~" >>

\* Below, `x \in {e}` names the value of e, as a const declaration of the parser does.

\* the characters of a string
Chars(s) == { s[i] : i \in DOMAIN s }
IndexOf(c, s) == CHOOSE i \in DOMAIN s : s[i] = c
HexChars == Chars(HexUpper) \cup { "a", "b", "c", "d", "e", "f" }
ToLower(c) == IF c \in Chars(UpperAlpha) THEN LowerAlpha[IndexOf(c, UpperAlpha)] ELSE c
LowerCase(s) == [i \in DOMAIN s |-> ToLower(s[i])]
\* the value of a hexadecimal digit
HexValue(c) ==
  IF c \in Chars(HexUpper) THEN IndexOf(c, HexUpper) - 1
  ELSE IndexOf(c, <<"a", "b", "c", "d", "e", "f">>) + 9

\* the position of the first character of s that is in cs, Len(s) + 1 if there is none
FirstIn(s, cs) ==
  CHOOSE k \in {
      IF \E i \in DOMAIN t : t[i] \in cs
        THEN CHOOSE i \in DOMAIN t : t[i] \in cs /\ \A j \in 1..(i - 1) : t[j] \notin cs
        ELSE Len(t) + 1 : t \in {s} } : TRUE

\* the position of the first character of s that is not in cs, Len(s) + 1 if there is none
FirstNotIn(s, cs) ==
  CHOOSE k \in {
      IF \E i \in DOMAIN t : t[i] \notin cs
        THEN CHOOSE i \in DOMAIN t : t[i] \notin cs /\ \A j \in 1..(i - 1) : t[j] \in cs
        ELSE Len(t) + 1 : t \in {s} } : TRUE

\* the position of the last "@" of s, 0 if there is none
LastAt(s) ==
  CHOOSE k \in {
      IF \E i \in DOMAIN t : t[i] = "@"
        THEN CHOOSE i \in DOMAIN t : t[i] = "@" /\ \A j \in (i + 1)..Len(t) : t[j] # "@"
        ELSE 0 : t \in {s} } : TRUE

\* the part of s before the first character that is in cs
CutAt(s, cs) == CHOOSE cut \in { SubSeq(t, 1, FirstIn(t, cs) - 1) : t \in {s} } : TRUE

\* s without the characters that are in cs
Without(s, cs) == SelectSeq(s, LAMBDA c : c \notin cs)

\* s.split(one of seps)
RECURSIVE SplitOn(_, _)
SplitOn(s, seps) ==
  IF \A i \in DOMAIN s : s[i] \notin seps THEN <<s>>
  ELSE CHOOSE parts \in { <<CutAt(s, seps)>> \o SplitOn(rest, seps) :
                           rest \in { Slice(s, FirstIn(s, seps)) } } : TRUE

\* the schemes
Http == <<"h", "t", "t", "p">>
File == <<"f", "i", "l", "e">>
SpecialSchemes ==
  { Http, Http \o <<"s">>, File, <<"w", "s">>, <<"w", "s", "s">>, <<"f", "t", "p">> }
SchemeChars ==
  Chars(LowerAlpha) \cup Chars(UpperAlpha) \cup Chars(DecDigits) \cup {"+", "-", "."}
\* in a special URL a backslash separates like a slash
PathSeps(scheme) == IF scheme \in SpecialSchemes THEN {"/", "\\"} ELSE {"/"}

\* C0 control or space: stripped from both ends of the input
C0ControlOrSpace == {" ", "\t", "\n", "\r", "\f", "U+000B"}
\* the C0 control percent-encode set: the controls, and the characters outside
\* ASCII (those that have a name here)
C0ControlEncodeSet ==
  { "\f", "U+000B",
    "U+00A0", "U+1680", "U+180E", "U+2000", "U+2001", "U+2002", "U+2003", "U+2004",
    "U+2005", "U+2006", "U+2007", "U+2008", "U+2009", "U+200A", "U+200B", "U+2028",
    "U+2029", "U+202F", "U+205F", "U+3000", "U+FEFF" }
PathEncodeSet == C0ControlEncodeSet \cup {" ", "\"", "#", "<", ">", "?", "U+0060", "{", "}"}

RECURSIVE StripStart(_, _)
StripStart(s, cs) == IF s # <<>> /\ Head(s) \in cs THEN StripStart(Tail(s), cs) ELSE s

RECURSIVE StripEnd(_, _)
StripEnd(s, cs) ==
  IF s # <<>> /\ s[Len(s)] \in cs THEN StripEnd(SubSeq(s, 1, Len(s) - 1), cs) ELSE s

\* the UTF-8 bytes of a character
Utf8(c) ==
  CASE c = "\f" -> <<12>>
    [] c = "U+000B" -> <<11>>
    [] c = "U+00A0" -> <<194, 160>>
    [] c = "U+1680" -> <<225, 154, 128>>
    [] c = "U+180E" -> <<225, 160, 142>>
    [] c = "U+2000" -> <<226, 128, 128>>
    [] c = "U+2001" -> <<226, 128, 129>>
    [] c = "U+2002" -> <<226, 128, 130>>
    [] c = "U+2003" -> <<226, 128, 131>>
    [] c = "U+2004" -> <<226, 128, 132>>
    [] c = "U+2005" -> <<226, 128, 133>>
    [] c = "U+2006" -> <<226, 128, 134>>
    [] c = "U+2007" -> <<226, 128, 135>>
    [] c = "U+2008" -> <<226, 128, 136>>
    [] c = "U+2009" -> <<226, 128, 137>>
    [] c = "U+200A" -> <<226, 128, 138>>
    [] c = "U+200B" -> <<226, 128, 139>>
    [] c = "U+2028" -> <<226, 128, 168>>
    [] c = "U+2029" -> <<226, 128, 169>>
    [] c = "U+202F" -> <<226, 128, 175>>
    [] c = "U+205F" -> <<226, 129, 159>>
    [] c = "U+3000" -> <<227, 128, 128>>
    [] c = "U+FEFF" -> <<239, 187, 191>>
    [] OTHER -> <<31 + IndexOf(c, AsciiPrintable)>>

RECURSIVE PercentBytes(_)
PercentBytes(bytes) ==
  IF bytes = <<>> THEN <<>>
  ELSE << "%", HexUpper[(Head(bytes) \div 16) + 1], HexUpper[(Head(bytes) % 16) + 1] >>
       \o PercentBytes(Tail(bytes))

\* s with its characters that are in cs percent-encoded
RECURSIVE PercentEncode(_, _)
PercentEncode(s, cs) ==
  IF s = <<>> THEN <<>>
  ELSE (IF Head(s) \in cs THEN PercentBytes(Utf8(Head(s))) ELSE <<Head(s)>>)
       \o PercentEncode(Tail(s), cs)

\* percent-decoding ("U+FFFD" stands for a byte that is neither ASCII white space
\* nor in 20 to 7E)
RECURSIVE PercentDecode(_)
PercentDecode(s) ==
  IF s = <<>> THEN <<>>
  ELSE IF s[1] = "%" /\ Len(s) >= 3 /\ s[2] \in HexChars /\ s[3] \in HexChars
    THEN CHOOSE decoded \in {
           (IF byte \in 32..126 THEN <<AsciiPrintable[byte - 31]>>
            ELSE IF byte \in {9, 10, 12, 13}
              THEN <<[b \in {9, 10, 12, 13} |->
                       CASE b = 9 -> "\t" [] b = 10 -> "\n" [] b = 12 -> "\f"
                         [] OTHER -> "\r"][byte]>>
            ELSE <<"U+FFFD">>)
           \o PercentDecode(Slice(s, 3)) :
           byte \in { 16 * HexValue(s[2]) + HexValue(s[3]) } } : TRUE
  ELSE <<s[1]>> \o PercentDecode(Tail(s))

(* The path. *)
IsDoubleDot(seg) ==
  LowerCase(seg) \in { <<".", ".">>, <<".", "%", "2", "e">>, <<"%", "2", "e", ".">>,
                       <<"%", "2", "e", "%", "2", "e">> }
\* a Windows drive letter
IsDriveLetter(seg) == Len(seg) = 2 /\ ToLower(seg[1]) \in Chars(LowerAlpha) /\ seg[2] \in {":", "|"}

\* "shorten a path": the last segment goes, but not the only segment of a file URL
\* when it starts with a letter and ":" (the runtime looks at the first two
\* characters of the segment and not at its length)
Shorten(path, file) ==
  IF path = <<>> \/ (file /\ Len(path) = 1 /\ Len(path[1]) >= 2
                       /\ ToLower(path[1][1]) \in Chars(LowerAlpha) /\ path[1][2] = ":")
    THEN path
    ELSE SubSeq(path, 1, Len(path) - 1)

\* the path state: "." and ".." segments are resolved, the others percent-encoded.
\* A last ".." leaves an empty last segment behind when the URL is special or a
\* segment went (the runtime leaves the empty path of a URL that is not special
\* empty).
RECURSIVE PathSegments(_, _, _)
PathSegments(segs, path, scheme) ==
  IF segs = <<>> THEN path
  ELSE CHOOSE result \in { PathSegments(Tail(segs), next, scheme) : next \in {
         IF IsDoubleDot(Head(segs))
           THEN Shorten(path, scheme = File)
                \o (IF Len(segs) = 1 /\ (scheme \in SpecialSchemes
                                           \/ Shorten(path, scheme = File) # path)
                      THEN << <<>> >> ELSE <<>>)
         ELSE IF LowerCase(Head(segs)) \in { <<".">>, <<"%", "2", "e">> }
           THEN path \o (IF Len(segs) = 1 THEN << <<>> >> ELSE <<>>)
         ELSE Append(path, IF scheme = File /\ path = <<>> /\ IsDriveLetter(Head(segs))
                             THEN <<Head(segs)[1], ":">>
                             ELSE PercentEncode(Head(segs), PathEncodeSet)) } } : TRUE

RECURSIVE JoinPath(_)
JoinPath(segs) ==
  IF segs = <<>> THEN <<>> ELSE <<"/">> \o Head(segs) \o JoinPath(Tail(segs))

\* The parser of the runtime (Ada, in Node.js 18 to 22) takes a path as it is when
\* it holds dots but nothing to encode, no "%" and no backslash, does not start
\* with a dot, and its first "/." is followed by a character other than "." and
\* "/": dot segments further on are not resolved then ("/a/.x/../b" stays).
KeepsDots(view, scheme) ==
  /\ Chars(view) \cap ({"\\", "%"} \cup PathEncodeSet) = {}
  /\ ~(scheme = File /\ Len(view) >= 2 /\ IsDriveLetter(SubSeq(view, 1, 2))
         /\ (Len(view) = 2 \/ view[3] \in {"/", "\\"}))
  /\ \E i \in 1..(Len(view) - 2) :
       /\ view[1] # "."
       /\ view[i] = "/" /\ view[i + 1] = "." /\ view[i + 2] \notin {".", "/"}
       /\ \A j \in 1..(i - 1) : ~(view[j] = "/" /\ view[j + 1] = ".")

\* url.pathname for the path that follows the first separator
PathnameOf(view, scheme) ==
  IF KeepsDots(view, scheme) THEN <<"/">> \o view
  ELSE CHOOSE pathname \in { JoinPath(path) : path \in {
         PathSegments(SplitOn(view, PathSeps(scheme)), <<>>, scheme) } } : TRUE

\* the pathname after an authority: `after` is empty or starts with a separator
AfterAuthority(after, scheme) ==
  IF after # <<>>
    THEN CHOOSE pathname \in { PathnameOf(view, scheme) : view \in {Tail(after)} } : TRUE
  ELSE IF scheme \in SpecialSchemes THEN <<"/">>
  ELSE <<>>

(* Numbers: held as hi * 65536 + lo, hi capped at 65536. *)
RECURSIVE NumFold(_, _, _, _)
NumFold(s, radix, hi, lo) ==
  IF s = <<>> THEN [hi |-> hi, lo |-> lo]
  ELSE CHOOSE n \in { NumFold(Tail(s), radix, high, low % 65536) :
                       low \in { lo * radix + HexValue(Head(s)) },
                       high \in { IF hi * radix + ((lo * radix + HexValue(Head(s))) \div 65536)
                                     > 65536
                                   THEN 65536
                                   ELSE hi * radix
                                        + ((lo * radix + HexValue(Head(s))) \div 65536) } } :
         TRUE

\* the IPv4 number parser: the radix and the digits of a part
IPv4Radix(part) ==
  IF Len(part) >= 2 /\ part[1] = "0" /\ part[2] \in {"x", "X"} THEN 16
  ELSE IF Len(part) >= 2 /\ part[1] = "0" THEN 8
  ELSE 10
\* the digits of the part are digits of its radix
IsIPv4Number(part) ==
  /\ part # <<>>
  /\ \A c \in Chars(Slice(part, IF IPv4Radix(part) = 16 THEN 2
                                 ELSE IF IPv4Radix(part) = 8 THEN 1 ELSE 0)) :
       c \in HexChars /\ HexValue(c) < IPv4Radix(part)
IPv4Number(part) ==
  CHOOSE n \in { NumFold(digits, IPv4Radix(part), 0, 0) :
                  digits \in { Slice(part, IF IPv4Radix(part) = 16 THEN 2
                                           ELSE IF IPv4Radix(part) = 8 THEN 1 ELSE 0) } } :
    TRUE

\* the parts of a domain, a trailing empty one dropped
DomainParts(d) ==
  IF Len(SplitOn(d, {"."})) > 1 /\ SplitOn(d, {"."})[Len(SplitOn(d, {"."}))] = <<>>
    THEN SubSeq(SplitOn(d, {"."}), 1, Len(SplitOn(d, {"."})) - 1)
    ELSE SplitOn(d, {"."})

\* the ends-in-a-number checker
EndsInNumber(parts) ==
  \/ parts[Len(parts)] # <<>> /\ Chars(parts[Len(parts)]) \subseteq Chars(DecDigits)
  \/ IsIPv4Number(parts[Len(parts)])

\* the IPv4 parser accepts the parts
IPv4Valid(parts) ==
  /\ Len(parts) <= 4
  /\ \A i \in DOMAIN parts : IsIPv4Number(parts[i])
  /\ \A i \in 1..(Len(parts) - 1) :
       IPv4Number(parts[i]).hi = 0 /\ IPv4Number(parts[i]).lo <= 255
  /\ CASE Len(parts) = 1 -> IPv4Number(parts[1]).hi < 65536
       [] Len(parts) = 2 -> IPv4Number(parts[2]).hi < 256
       [] Len(parts) = 3 -> IPv4Number(parts[3]).hi = 0
       [] OTHER -> IPv4Number(parts[4]).hi = 0 /\ IPv4Number(parts[4]).lo <= 255

ForbiddenHost ==
  { " ", "#", "/", ":", "<", ">", "?", "@", "[", "\\", "]", "^", "|",
    "\t", "\n", "\r" }

\* the four decimal numbers that may end an IPv6 address
DottedQuad(s) ==
  /\ Len(SplitOn(s, {"."})) = 4
  /\ \A i \in 1..4 :
       LET part == SplitOn(s, {"."})[i] IN
       /\ part # <<>> /\ Len(part) <= 3 /\ Chars(part) \subseteq Chars(DecDigits)
       /\ Len(part) = 1 \/ part[1] # "0"
       /\ NumFold(part, 10, 0, 0).lo <= 255

\* the number of hexadecimal digits that s starts with, counted up to 4
HexRun(s) == IF FirstNotIn(s, HexChars) - 1 > 4 THEN 4 ELSE FirstNotIn(s, HexChars) - 1

\* the IPv6 parser: s is what is left, pieces the pieces read, compress whether
\* "::" was read
RECURSIVE IPv6Pieces(_, _, _)
IPv6Pieces(s, pieces, compress) ==
  IF s = <<>> THEN compress \/ pieces = 8
  ELSE IF pieces = 8 THEN FALSE
  ELSE IF s[1] = ":"
    THEN ~compress /\ \E rest \in { Tail(s) } : IPv6Pieces(rest, pieces + 1, TRUE)
  ELSE IF HexRun(s) = 0 THEN FALSE
  ELSE IF HexRun(s) = Len(s) THEN compress \/ pieces + 1 = 8
  ELSE IF s[HexRun(s) + 1] = "."
    THEN pieces <= 6 /\ DottedQuad(s) /\ (compress \/ pieces + 2 = 8)
  ELSE IF s[HexRun(s) + 1] = ":"
    THEN /\ HexRun(s) + 1 < Len(s)
         /\ \E rest \in { Slice(s, HexRun(s) + 1) } :
              IPv6Pieces(rest, pieces + 1, compress)
  ELSE FALSE

IPv6Valid(s) ==
  IF s # <<>> /\ s[1] = ":"
    THEN /\ Len(s) >= 2 /\ s[2] = ":"
         /\ \E rest \in { Slice(s, 2) } : IPv6Pieces(rest, 1, TRUE)
    ELSE IPv6Pieces(s, 0, FALSE)

\* a domain after percent-decoding and lower-casing
DomainValid(d) ==
  /\ d # <<>>
  /\ Chars(d) \cap (ForbiddenHost \cup { "%", "\f", "U+000B", "U+FFFD" }) = {}
  /\ \E parts \in { DomainParts(d) } : EndsInNumber(parts) => IPv4Valid(parts)

\* the host parser accepts the host
HostValid(host, scheme) ==
  IF host = <<>> THEN TRUE
  ELSE IF host[1] = "["
    THEN /\ host[Len(host)] = "]"
         /\ \E address \in { SubSeq(host, 2, Len(host) - 1) } : IPv6Valid(address)
  ELSE IF scheme \notin SpecialSchemes THEN Chars(host) \cap ForbiddenHost = {}
  ELSE \E domain \in { LowerCase(PercentDecode(host)) } : DomainValid(domain)

\* the position of the ":" that starts the port: the first one outside brackets
RECURSIVE PortColon(_, _, _)
PortColon(s, i, inside) ==
  IF i > Len(s) THEN i
  ELSE IF s[i] = ":" /\ ~inside THEN i
  ELSE PortColon(s, i + 1, IF s[i] = "[" THEN TRUE ELSE IF s[i] = "]" THEN FALSE
                           ELSE inside)

Failure == [ok |-> FALSE]
\* what the handler and fetch read of a URL: url.protocol without its ":", whether
\* url.username or url.password is set, url.port, url.pathname
Parsed(scheme, credentials, port, pathname) ==
  [ok |-> TRUE, scheme |-> scheme, credentials |-> credentials, port |-> port,
   pathname |-> pathname]

\* url.port: empty for the default port of the scheme
PortOf(scheme, digits) ==
  IF digits = <<>> THEN <<>>
  ELSE CHOOSE port \in {
         IF \/ n = 80 /\ scheme \in {Http, <<"w", "s">>}
            \/ n = 443 /\ scheme \in {Http \o <<"s">>, <<"w", "s", "s">>}
            \/ n = 21 /\ scheme = <<"f", "t", "p">>
           THEN <<>> ELSE ToDecimal(n) :
         n \in { NumFold(digits, 10, 0, 0).lo } } : TRUE

\* host and port: a special URL has a host, so has a URL with "@" or a port
HostAndPort(scheme, after, userinfo, host, port) ==
  IF host = <<>> /\ (userinfo.at \/ scheme \in SpecialSchemes \/ port.colon) THEN Failure
  \* the port: decimal digits, at most 65535
  ELSE IF ~(Chars(port.digits) \subseteq Chars(DecDigits)
            /\ NumFold(port.digits, 10, 0, 0).hi = 0) THEN Failure
  ELSE IF ~HostValid(host, scheme) THEN Failure
  ELSE Parsed(scheme, userinfo.at /\ userinfo.text \notin { <<>>, <<":">> },
              PortOf(scheme, port.digits), AfterAuthority(after, scheme))

\* the authority: user information up to the last "@", then host and port
AuthorityParts(scheme, after, auth, hostport) ==
  CHOOSE url \in { HostAndPort(scheme, after, userinfo, host, port) :
                    userinfo \in { [at |-> Len(hostport) < Len(auth),
                                    text |-> SubSeq(auth, 1, Len(auth) - Len(hostport) - 1)] },
                    host \in { SubSeq(hostport, 1, PortColon(hostport, 1, FALSE) - 1) },
                    port \in { [colon |-> PortColon(hostport, 1, FALSE) <= Len(hostport),
                                digits |-> Slice(hostport, PortColon(hostport, 1, FALSE))] } } :
    TRUE

\* the authority state: s is what follows the slashes
Authority(scheme, s) ==
  CHOOSE url \in { AuthorityParts(scheme, after, auth, hostport) :
                    auth \in { CutAt(s, PathSeps(scheme)) },
                    after \in { Slice(s, Len(CutAt(s, PathSeps(scheme)))) },
                    hostport \in { Slice(CutAt(s, PathSeps(scheme)),
                                         LastAt(CutAt(s, PathSeps(scheme)))) } } :
    TRUE

\* the file host state (the base URL is no file URL): a drive letter in the place of
\* the host starts the path
FileHost(s, buffer) ==
  IF IsDriveLetter(buffer) THEN Parsed(File, FALSE, <<>>, PathnameOf(s, File))
  ELSE IF ~HostValid(buffer, File) THEN Failure
  ELSE CHOOSE url \in { Parsed(File, FALSE, <<>>, AfterAuthority(after, File)) :
                         after \in { Slice(s, Len(buffer)) } } : TRUE

\* the file state and the file slash state
FileState(rest) ==
  IF rest = <<>> \/ rest[1] \notin {"/", "\\"}
    THEN Parsed(File, FALSE, <<>>, PathnameOf(rest, File))
  ELSE IF Len(rest) < 2 \/ rest[2] \notin {"/", "\\"}
    THEN CHOOSE url \in { Parsed(File, FALSE, <<>>, PathnameOf(view, File)) :
                           view \in { Tail(rest) } } : TRUE
  ELSE CHOOSE url \in { FileHost(s, buffer) :
                         s \in { Slice(rest, 2) },
                         buffer \in { CutAt(Slice(rest, 2), {"/", "\\"}) } } : TRUE

\* opts.bindHost and opts.port of the gateway
BindHost == <<"1", "2", "7", ".", "0", ".", "0", ".", "1">>
Port == 18789
\* url.port of the base URL
BasePort == PortOf(Http, ToDecimal(Port))

\* the relative state, for the base URL `http://${bindHost}:${port}` (its path is "/"):
\* two leading separators announce a host, one an absolute path
Relative(rest) ==
  IF rest = <<>> THEN Parsed(Http, FALSE, BasePort, <<"/">>)
  ELSE IF rest[1] \notin {"/", "\\"}
    THEN Parsed(Http, FALSE, BasePort, PathnameOf(rest, Http))
  ELSE IF Len(rest) >= 2 /\ rest[2] \in {"/", "\\"}
    THEN CHOOSE url \in { Authority(Http, s) : s \in { StripStart(rest, {"/", "\\"}) } } :
           TRUE
  ELSE CHOOSE url \in { Parsed(Http, FALSE, BasePort, PathnameOf(view, Http)) :
                         view \in { Tail(rest) } } : TRUE

\* after the scheme and its ":"
AfterScheme(scheme, rest, hasBase) ==
  IF scheme = File THEN FileState(rest)
  ELSE IF scheme \in SpecialSchemes
    THEN IF hasBase /\ scheme = Http /\ ~StartsWith(rest, <<"/", "/">>)
           THEN Relative(rest)
           ELSE CHOOSE url \in { Authority(scheme, s) :
                                  s \in { StripStart(rest, {"/", "\\"}) } } : TRUE
  ELSE IF StartsWith(rest, <<"/", "/">>)
    THEN CHOOSE url \in { Authority(scheme, s) : s \in { Slice(rest, 2) } } : TRUE
  ELSE IF StartsWith(rest, <<"/">>)
    THEN CHOOSE url \in { Parsed(scheme, FALSE, <<>>, PathnameOf(view, scheme)) :
                           view \in { Tail(rest) } } : TRUE
  \* an opaque path
  ELSE Parsed(scheme, FALSE, <<>>, PercentEncode(rest, C0ControlEncodeSet))

\* the scheme start state and the scheme state: k is where the scheme would end
SchemeState(s, k, hasBase) ==
  IF s # <<>> /\ ToLower(s[1]) \in Chars(LowerAlpha) /\ k <= Len(s) /\ s[k] = ":"
    THEN CHOOSE url \in { AfterScheme(scheme, rest, hasBase) :
                           scheme \in { LowerCase(SubSeq(s, 1, k - 1)) },
                           rest \in { Slice(s, k) } } : TRUE
  ELSE IF hasBase THEN Relative(s)
  ELSE Failure

\* the input without what the parser drops first (C0 control or space at the ends,
\* ASCII tab or newline anywhere), without fragment and query
UrlInput(input) ==
  CutAt(Without(StripEnd(StripStart(input, C0ControlOrSpace), C0ControlOrSpace),
                {"\t", "\n", "\r"}),
        {"#", "?"})

\* new URL(input), and new URL(input, base) for the base URL of the handler
ParseUrl(input, hasBase) ==
  CHOOSE url \in { SchemeState(s, FirstNotIn(s, SchemeChars), hasBase) :
                    s \in { UrlInput(input) } } : TRUE

\* `http://${bindHost}:${port}` is a URL
BaseUrlParses ==
  ParseUrl(Http \o <<":", "/", "/">> \o BindHost \o <<":">> \o ToDecimal(Port), FALSE).ok

\* new URL(req.url ?? "/", `http://${bindHost}:${port}`)
UrlOf(reqUrl) ==
  IF ~BaseUrlParses THEN Failure
  ELSE ParseUrl(IF reqUrl = Undefined THEN <<"/">> ELSE reqUrl, TRUE)

\* a path test that takes every path with the base path as a string prefix
PathMissesPrefixOnly(pathname, basePath) == ~StartsWith(pathname, basePath)

\* url.pathname !== basePath && !url.pathname.startsWith(`${basePath}/`)
PathMisses(pathname, basePath) ==
  pathname # basePath /\ ~StartsWith(pathname, basePath \o <<"/">>)

\* url.pathname.slice(basePath.length).replace(/^\/+/, "")
SubPathOf(pathname, basePath) == StripLeadingSlashes(Slice(pathname, Len(basePath)))

\* a handler without the method check
MethodAllowedAny(m) == TRUE

\* req.method !== "POST" is answered 405
MethodAllowed(m) == m = "POST"

\* an auth step that only requires that a token is presented
AuthenticateAnyToken(entry, token) ==
  IF DOMAIN entry.tokenMap = {} THEN [ok |-> TRUE, tokenName |-> Undefined]
  ELSE IF token = Undefined \/ token = <<>> THEN [ok |-> FALSE, tokenName |-> Undefined]
  ELSE [ok |-> TRUE,
        tokenName |-> IF token \in DOMAIN entry.tokenMap THEN entry.tokenMap[token]
                      ELSE Undefined]

\* Auth: if tokens are configured, require a matching one.
Authenticate(entry, token) ==
  IF DOMAIN entry.tokenMap = {} THEN [ok |-> TRUE, tokenName |-> Undefined]
  ELSE IF Falsy(token) THEN [ok |-> FALSE, tokenName |-> Undefined]
  ELSE IF token \notin DOMAIN entry.tokenMap THEN [ok |-> FALSE, tokenName |-> Undefined]
  ELSE [ok |-> TRUE, tokenName |-> entry.tokenMap[token]]

\* typeof body.value === "object" && body.value !== null ? body.value : {}
PayloadOf(body) == IF body.value.t = "object" THEN body.value.o ELSE EmptyMap

\* typeof raw.message === "string" ? raw.message.trim() : ""
MessageOf(raw) ==
  IF Has(raw, "message") /\ raw.message.t = "string" THEN Trim(raw.message.s) ELSE <<>>

\* typeof raw.callbackUrl === "string" ? raw.callbackUrl.trim() : undefined
CallbackUrlOf(raw) ==
  IF Has(raw, "callbackUrl") /\ raw.callbackUrl.t = "string"
    THEN Trim(raw.callbackUrl.s)
    ELSE Undefined

\* entry.mode ?? "sync"
ModeOf(entry) == IF Has(entry, "mode") THEN entry.mode ELSE "sync"

\* a mode/callback check without the sync half
ModeMismatchAsyncOnly(mode, callbackUrl) ==
  IF mode = "async" /\ (callbackUrl = Undefined \/ callbackUrl = <<>>)
    THEN "async - callbackUrl is required"
    ELSE ""

\* the mode/callback check: the error of the 400 response, or "" when it passes
ModeMismatch(mode, callbackUrl) ==
  IF mode = "async" /\ Falsy(callbackUrl) THEN "async - callbackUrl is required"
  ELSE IF mode = "sync" /\ ~Falsy(callbackUrl) THEN "sync - callbackUrl is not supported"
  ELSE ""

(***************************************************************************)
(* The dispatcher of createGatewayEndpointsRequestHandler: how the promise *)
(* returned by dispatch settles, given what the task runner did.           *)
(***************************************************************************)
DispatchOutcome(result, jobId) ==
  IF Has(result, "threw") THEN [ok |-> FALSE, err |-> ThrownString(result.threw)]
  ELSE IF result.status = "error"
    THEN [ok |-> FALSE,
          err |-> ErrorString(IF Has(result, "error") THEN result.error
                              ELSE "endpoint run failed")]
  ELSE [ok |-> TRUE,
        runId |-> jobId,
        reply |-> IF Has(result, "outputText") THEN result.outputText
                  ELSE IF Has(result, "summary") THEN result.summary
                  ELSE ""]

\* postCallback: the POST that fetch is asked to make
CallbackPost(url, body) == [url |-> url, body |-> body]

(***************************************************************************)
(* State.                                                                  *)
(***************************************************************************)
VARIABLES
  cfg,          \* the configuration loadConfig() returns at the moment
  clock,        \* Date.now()
  rateBuckets,  \* the module-level Map: endpoint id -> timestamps
  req,          \* per request slot: the request, the handler's locals and position,
                \* and what it has done (responses written, dispatch calls, POSTs)
  admitted      \* history, kept by SpecWindow only: endpoint id -> the values of
                \* Date.now() of all the checks that isRateLimited let pass

vars == <<cfg, clock, rateBuckets, req, admitted>>

Slots == 1..MaxInFlight

\* crypto.randomUUID(): the identifier drawn by the request in slot r for `use`;
\* identifiers of different draws of the requests in flight are different
RandomUUID(r, use) == <<r, use>>

NoUuid == <<0, "none">>

IdleSlot ==
  [pc |-> "idle", method |-> "", url |-> <<>>, pathname |-> <<>>, token |-> Undefined,
   handled |-> "pending", res |-> <<>>, entry |-> Null, tokenName |-> Undefined,
   limiter |-> "none", body |-> Null, message |-> <<>>, callbackUrl |-> Undefined,
   runId |-> NoUuid, calls |-> <<>>, result |-> Null, posts |-> <<>>, warns |-> <<>>,
   \* how the fetch of each callback POST settled, and the rejections that no
   \* handler caught (of the handler's promise or of the background task)
   fetched |-> <<>>, escaped |-> <<>>]

Init ==
  /\ cfg \in Configs
  /\ clock = 0
  /\ rateBuckets = EmptyMap
  /\ req = [r \in Slots |-> IdleSlot]
  /\ admitted = EmptyMap

\* the handler returns `handled` after writing the responses `resps`
Return(slot, handled, resps) ==
  [slot EXCEPT !.pc = "done", !.handled = handled, !.res = slot.res \o resps]

\* dispatch(value): the synchronous part, up to `await runCronIsolatedAgentTurn`
Invoke(slot, r, withCallback) ==
  LET sessionId == RandomUUID(r, "sessionKey")
      jobId == RandomUUID(r, "jobId")
      value == [endpointId |-> slot.entry.id, message |-> slot.message,
                tokenName |-> slot.tokenName, sessionId |-> sessionId, jobId |-> jobId,
                \* res.writableEnded at the moment of the call
                responded |-> slot.res # <<>>]
  IN [slot EXCEPT !.calls = Append(@,
        IF withCallback THEN [callbackUrl |-> slot.callbackUrl] @@ value ELSE value)]

(***************************************************************************)
(* The handler from its call to `await readJsonBody` (lines 70-127): the   *)
(* new slot and the new bucket map.                                        *)
(***************************************************************************)
HandleStart(config, buckets, now, m, reqUrl, tok) ==
  CHOOSE started \in {
  LET sIn == [IdleSlot EXCEPT !.method = m, !.url = reqUrl, !.token = tok]
      keep(slot) == [slot |-> slot, buckets |-> buckets]
  IN
  IF config = Null THEN keep(Return(sIn, "false", <<>>))
  \* new URL throws (line 75): the promise of the handler rejects
  ELSE IF ~url.ok
    THEN keep([sIn EXCEPT !.pc = "done", !.handled = "rejected",
                          !.escaped = Append(@, InvalidUrl)])
  ELSE LET p == url.pathname
           s0 == [sIn EXCEPT !.pathname = p]
       IN
  IF PathMisses(p, config.basePath) THEN keep(Return(s0, "false", <<>>))
  ELSE IF ~MethodAllowed(m) THEN keep(Return(s0, "true", <<MethodNotAllowed>>))
  ELSE LET subPath == SubPathOf(p, config.basePath) IN
  IF subPath = <<>>
    THEN keep(Return(s0, "true", <<JsonError(404, "Endpoint id required in path")>>))
  ELSE IF subPath \notin DOMAIN config.entries
    THEN keep(Return(s0, "true",
                     <<[arg |-> subPath] @@ JsonError(404, "Unknown endpoint")>>))
  ELSE LET entry == config.entries[subPath]
           auth == Authenticate(entry, tok)
           s1 == [s0 EXCEPT !.entry = entry, !.tokenName = auth.tokenName]
       IN
  IF ~auth.ok THEN keep(Return(s1, "true", <<JsonError(401, "Unauthorized")>>))
  ELSE IF config.rateLimit = Null
    THEN keep([s1 EXCEPT !.pc = "body"])
  ELSE LET windowMs == config.rateLimit.windowSeconds * MsPerSecond
           rl == isRateLimited(buckets, entry.id, config.rateLimit.maxRequests,
                               windowMs, now)
       IN
  IF rl.limited
    THEN [slot |-> Return([s1 EXCEPT !.limiter = "rejected"], "true",
                     <<[retryAfter |-> ToDecimal(config.rateLimit.windowSeconds)]
                         @@ JsonError(429, "Rate limit exceeded")>>),
          buckets |-> rl.buckets]
    ELSE [slot |-> [s1 EXCEPT !.limiter = "admitted", !.pc = "body"],
          buckets |-> rl.buckets]
  \* const url = new URL(...) (line 75)
  : url \in { UrlOf(reqUrl) } } : TRUE

(***************************************************************************)
(* The handler after readJsonBody resolved with `body` (lines 128-209), up *)
(* to its return (async) or to `await dispatch` (sync).                    *)
(***************************************************************************)
HandleBody(slot, body, r) ==
  LET s0 == [slot EXCEPT !.body = body] IN
  IF ~body.ok
    THEN Return(s0, "true",
           <<JsonError(IF body.error = "payload too large" THEN 413 ELSE 400,
                       body.error)>>)
  ELSE LET raw == PayloadOf(body)
           message == MessageOf(raw)
       IN
  IF message = <<>> THEN Return(s0, "true", <<JsonError(400, "message is required")>>)
  ELSE LET callbackUrl == CallbackUrlOf(raw)
           mode == ModeOf(slot.entry)
           s1 == [s0 EXCEPT !.message = message, !.callbackUrl = callbackUrl]
       IN
  IF ModeMismatch(mode, callbackUrl) # ""
    THEN Return(s1, "true",
           <<[arg |-> slot.entry.id] @@ JsonError(400, ModeMismatch(mode, callbackUrl))>>)
  ELSE IF mode = "async"
    THEN LET runId == RandomUUID(r, "runId")
             s2 == [s1 EXCEPT !.runId = runId, !.handled = "true",
                              !.res = Append(@, [status |-> 202, ok |-> TRUE,
                                                 runId |-> runId])]
         IN [Invoke(s2, r, TRUE) EXCEPT !.pc = "asyncRunner"]
    ELSE [Invoke(s1, r, FALSE) EXCEPT !.pc = "syncRunner"]

(***************************************************************************)
(* The continuation after the task runner settled with `result`.           *)
(***************************************************************************)
\* a sync branch that answers 200 whatever the task runner did
SyncSettledAlwaysOk(slot, result) ==
  [slot EXCEPT !.result = result, !.pc = "done", !.handled = "true",
               !.res = Append(@, [status |-> 200, ok |-> TRUE, reply |-> ""])]

\* a sync branch that calls the task runner again when it failed
SyncSettledRetry(slot, result) ==
  IF Has(result, "threw") \/ result.status = "error"
    THEN [slot EXCEPT !.result = result,
                      !.calls = Append(@, slot.calls[Len(slot.calls)])]
    ELSE [slot EXCEPT !.result = result, !.pc = "done", !.handled = "true",
                      !.res = Append(@, [status |-> 200, ok |-> TRUE,
                                         reply |-> DispatchOutcome(result, NoUuid).reply])]

\* sync: lines 210-215
SyncSettled(slot, result) ==
  LET d == DispatchOutcome(result, slot.calls[Len(slot.calls)].jobId)
      s0 == [slot EXCEPT !.result = result]
  IN IF d.ok
       THEN Return(s0, "true", <<[status |-> 200, ok |-> TRUE, reply |-> d.reply]>>)
       ELSE Return([s0 EXCEPT !.warns = Append(@, <<"sync error", d.err>>)], "true",
                   <<JsonError(500, d.err)>>)

\* a catch block that also answers 500 on the connection of the request
AsyncCatchWrites(slot, err) ==
  [slot EXCEPT !.warns = Append(@, <<"async error", err>>),
               !.res = Append(@, [status |-> 500, ok |-> FALSE, error |-> err]),
               !.pc = "cbErr",
               !.posts = Append(@, [url |-> slot.callbackUrl,
                                    body |-> [runId |-> slot.runId, status |-> "error",
                                              error |-> err]])]

\* the catch block of the background task: lines 185-192
AsyncCatch(slot, err) ==
  LET s0 == [slot EXCEPT !.warns = Append(@, <<"async error", err>>)]
  IN IF ~Falsy(slot.callbackUrl)
       THEN [s0 EXCEPT !.pc = "cbErr",
                       !.posts = Append(@, CallbackPost(slot.callbackUrl,
                           [runId |-> slot.runId, status |-> "error", error |-> err]))]
       ELSE [s0 EXCEPT !.pc = "done"]

\* a background task that gives up when the run failed: no log line, no callback
AsyncSettledSilent(slot, result) ==
  LET d == DispatchOutcome(result, slot.calls[Len(slot.calls)].jobId)
      s0 == [slot EXCEPT !.result = result]
  IN IF d.ok /\ ~Falsy(slot.callbackUrl)
       THEN [s0 EXCEPT !.pc = "cbOk",
                       !.posts = Append(@, CallbackPost(slot.callbackUrl,
                           [runId |-> slot.runId, status |-> "ok", reply |-> d.reply]))]
       ELSE [s0 EXCEPT !.pc = "done"]

\* a background task that reports the identifier that dispatch returned
AsyncSettledJobId(slot, result) ==
  LET d == DispatchOutcome(result, slot.calls[Len(slot.calls)].jobId)
      s0 == [slot EXCEPT !.result = result]
  IN IF d.ok
       THEN IF ~Falsy(slot.callbackUrl)
              THEN [s0 EXCEPT !.pc = "cbOk",
                              !.posts = Append(@, CallbackPost(slot.callbackUrl,
                                  [runId |-> d.runId, status |-> "ok",
                                   reply |-> d.reply]))]
              ELSE [s0 EXCEPT !.pc = "done"]
       ELSE AsyncCatch(s0, d.err)

\* a background task that writes the outcome of the run on the connection
AsyncSettledWrites(slot, result) ==
  LET failed == Has(result, "threw") \/ result.status = "error"
  IN [slot EXCEPT !.result = result,
                  !.res = Append(@, [status |-> IF failed THEN 500 ELSE 200,
                                     ok |-> ~failed]),
                  !.pc = IF failed THEN "cbErr" ELSE "cbOk",
                  !.posts = Append(@, [url |-> slot.callbackUrl,
                                       body |-> [runId |-> slot.runId,
                                                 status |-> IF failed THEN "error"
                                                            ELSE "ok"]])]

\* async: lines 177-183, or the catch block
AsyncSettled(slot, result) ==
  LET d == DispatchOutcome(result, slot.calls[Len(slot.calls)].jobId)
      s0 == [slot EXCEPT !.result = result]
  IN IF d.ok
       THEN IF ~Falsy(slot.callbackUrl)
              THEN [s0 EXCEPT !.pc = "cbOk",
                              !.posts = Append(@, CallbackPost(slot.callbackUrl,
                                  [runId |-> slot.runId, status |-> "ok",
                                   reply |-> d.reply]))]
              ELSE [s0 EXCEPT !.pc = "done"]
       ELSE AsyncCatch(s0, d.err)

\* the ports that fetch refuses for http and https URLs ("bad port")
BadPorts ==
  { ToDecimal(p) : p \in
      { 1, 7, 9, 11, 13, 15, 17, 19, 20, 21, 22, 23, 25, 37, 42, 43, 53, 69, 77, 79, 87,
        95, 101, 102, 103, 104, 109, 110, 111, 113, 115, 117, 119, 123, 135, 137, 139,
        143, 161, 179, 389, 427, 465, 512, 513, 514, 515, 526, 530, 531, 532, 540, 548,
        554, 556, 563, 587, 601, 636, 989, 990, 993, 995, 1719, 1720, 1723, 2049, 3659,
        4045, 4190, 5060, 5061, 6000, 6566, 6665, 6666, 6667, 6668, 6669, 6679, 6697,
        10080 } }

\* url.hostname of a URL that is not special, from its authority (which the parser
\* accepted): an opaque host is percent-encoded; an IPv6 address is written anew
\* from its eight pieces, in lower-case hexadecimal digits without leading zeros,
\* "::" in the place of the first longest run of two or more pieces that are 0
HostText(authority) ==
  LET hostport == Slice(authority, LastAt(authority))
      host == SubSeq(hostport, 1, PortColon(hostport, 1, FALSE) - 1)
      tokens == SplitOn(SubSeq(host, 2, Len(host) - 1), {":"})
      RECURSIVE Numbers(_)
      Numbers(ts) ==
        IF ts = <<>> THEN <<>>
        ELSE (IF Head(ts) = <<>> THEN <<>>
              ELSE IF "." \in Chars(Head(ts))
                THEN LET quad == [i \in 1..4 |->
                                    NumFold(SplitOn(Head(ts), {"."})[i], 10, 0, 0).lo]
                     IN << 256 * quad[1] + quad[2], 256 * quad[3] + quad[4] >>
              ELSE << NumFold(Head(ts), 16, 0, 0).lo >>)
             \o Numbers(Tail(ts))
      left == Numbers(SubSeq(tokens, 1, FirstIn(tokens, {<<>>}) - 1))
      right == Numbers(Slice(tokens, FirstIn(tokens, {<<>>}) - 1))
      pieces == left \o [i \in 1..(8 - Len(left) - Len(right)) |-> 0] \o right
      run(i) == CHOOSE n \in 0..(9 - i) :
                  /\ \A j \in i..(i + n - 1) : pieces[j] = 0
                  /\ i + n = 9 \/ pieces[i + n] # 0
      compress == CHOOSE i \in 1..8 :
                    \A j \in 1..8 : run(j) < run(i) \/ (run(j) = run(i) /\ j >= i)
      RECURSIVE Hex(_)
      Hex(n) == IF n < 16 THEN << ToLower(HexUpper[n + 1]) >>
                ELSE Append(Hex(n \div 16), ToLower(HexUpper[(n % 16) + 1]))
      RECURSIVE Join(_)
      Join(ns) == IF ns = <<>> THEN <<>>
                  ELSE Hex(Head(ns)) \o (IF Len(ns) > 1 THEN <<":">> ELSE <<>>)
                       \o Join(Tail(ns))
  IN IF host # <<>> /\ host[1] = "["
       THEN <<"[">>
            \o (IF run(compress) >= 2
                  THEN Join(SubSeq(pieces, 1, compress - 1)) \o <<":", ":">>
                       \o Join(SubSeq(pieces, compress + run(compress), 8))
                  ELSE Join(pieces))
            \o <<"]">>
       ELSE PercentEncode(host, C0ControlEncodeSet)

\* what follows "data:" in url.href without the fragment (the URL has no
\* credentials): "//", url.hostname and ":" with url.port when the port is not
\* empty, if the URL has a host; "/." if it has none and url.pathname starts with
\* "//"; url.pathname; the query percent-encoded
DataUrlText(url, parsed) ==
  CHOOSE text \in {
      (IF StartsWith(rest, <<"/", "/">>)
         THEN <<"/", "/">> \o HostText(CutAt(Slice(CutAt(rest, {"?"}), 2), {"/"}))
              \o (IF parsed.port # <<>> THEN <<":">> \o parsed.port ELSE <<>>)
         ELSE IF StartsWith(parsed.pathname, <<"/", "/">>) THEN <<"/", ".">>
         ELSE <<>>)
      \o parsed.pathname
      \o (IF "?" \in Chars(rest)
            THEN <<"?">> \o PercentEncode(Slice(rest, FirstIn(rest, {"?"})),
                                          C0ControlEncodeSet \cup {" ", "\"", "<", ">"})
            ELSE <<>>) :
      rest \in { Slice(CutAt(Without(StripEnd(StripStart(url, C0ControlOrSpace),
                                              C0ControlOrSpace),
                                     {"\t", "\n", "\r"}),
                             {"#"}), 5) } } : TRUE

\* the data: URL processor accepts the text: it holds a ","; and what follows the
\* "," is base64 (forgiving-base64 decode) when what precedes it ends with ";base64"
DataUrlValid(text) ==
  /\ "," \in Chars(text)
  /\ \E mime \in { StripEnd(CutAt(text, {","}), {" "}) } :
       ( /\ Len(mime) >= 6
         /\ LowerCase(SubSeq(mime, Len(mime) - 5, Len(mime)))
              = <<"b", "a", "s", "e", "6", "4">>
         /\ \E before \in { StripEnd(SubSeq(mime, 1, Len(mime) - 6), {" "}) } :
              before # <<>> /\ before[Len(before)] = ";" )
       => \E data \in { Without(PercentDecode(Slice(text, FirstIn(text, {","}))),
                                {"\t", "\n", "\f", "\r", " "}) } :
            \E n \in { IF Len(data) % 4 = 0 /\ data # <<>> /\ data[Len(data)] = "="
                          THEN (IF data[Len(data) - 1] = "=" THEN Len(data) - 2
                                ELSE Len(data) - 1)
                          ELSE Len(data) } :
              /\ n % 4 # 1
              /\ \A i \in 1..n :
                   data[i] \in Chars(LowerAlpha) \cup Chars(UpperAlpha)
                                 \cup Chars(DecDigits) \cup {"+", "/"}

\* how fetch(url) settles when the network would answer with `outcome`: a URL that
\* new URL(url) cannot parse and a URL with credentials are refused before anything
\* is sent; an http or https URL is fetched from the network unless its port is a
\* bad port; a data: URL is answered with status 200 without the network when the
\* data: URL processor accepts it; every other URL is a network error
FetchOutcome(url, outcome) ==
  CHOOSE settled \in {
      IF ~parsed.ok THEN "badurl"
      ELSE IF parsed.credentials THEN "credentials"
      ELSE IF parsed.scheme \in {Http, Http \o <<"s">>}
        THEN (IF parsed.port \in BadPorts THEN "neterr" ELSE outcome)
      ELSE IF parsed.scheme = <<"d", "a", "t", "a">>
                /\ DataUrlValid(DataUrlText(url, parsed))
        THEN "2xx"
      ELSE "neterr" : parsed \in { ParseUrl(url, FALSE) } } : TRUE

\* String(err) of the TypeError that fetch rejects with
FetchError(url, settled) ==
  <<"TypeError: ">> \o
    (IF settled = "badurl" THEN <<"Failed to parse URL from ">> \o url
     ELSE IF settled = "credentials"
       THEN <<"Request cannot be constructed from a URL that includes credentials: ">>
            \o url
     ELSE <<"fetch failed">>)

\* the continuation after fetch settled (postCallback ignores the response, so a
\* non-2xx answer resolves like a 2xx one): a rejection of `await postCallback`
\* in the try block (line 178) lands in the catch block; a rejection of the one
\* in the catch block is swallowed by `.catch(() => {})` (line 191)
CallbackSettled(slot, outcome) ==
  CHOOSE next \in {
      IF settled \notin {"2xx", "non2xx"} /\ slot.pc = "cbOk"
        THEN AsyncCatch([slot EXCEPT !.fetched = Append(@, settled)],
                        FetchError(slot.posts[Len(slot.posts)].url, settled))
        ELSE [slot EXCEPT !.fetched = Append(@, settled), !.pc = "done"] :
      settled \in { FetchOutcome(slot.posts[Len(slot.posts)].url, outcome) } } : TRUE

(***************************************************************************)
(* Actions.                                                                *)
(***************************************************************************)
\* a request arrives and the handler runs up to its first await
Arrive(r, m, reqUrl, tok) ==
  /\ req[r].pc = "idle"
  /\ \A q \in 1..(r - 1) : req[q].pc # "idle"
  /\ LET h == HandleStart(resolveEndpointsConfig(cfg), rateBuckets, clock, m, reqUrl, tok)
     IN /\ req' = [req EXCEPT ![r] = h.slot]
        /\ rateBuckets' = h.buckets
  /\ UNCHANGED <<cfg, clock, admitted>>

\* Arrive, with the history of the admissions kept
ArriveLogged(r, m, reqUrl, tok) ==
  /\ req[r].pc = "idle"
  /\ \A q \in 1..(r - 1) : req[q].pc # "idle"
  /\ LET h == HandleStart(resolveEndpointsConfig(cfg), rateBuckets, clock, m, reqUrl, tok)
         k == h.slot.entry.id
     IN /\ req' = [req EXCEPT ![r] = h.slot]
        /\ rateBuckets' = h.buckets
        /\ admitted' = IF h.slot.limiter = "admitted"
                         THEN MapSet(admitted, k,
                                Append(IF k \in DOMAIN admitted THEN admitted[k] ELSE <<>>,
                                       clock))
                         ELSE admitted
  /\ UNCHANGED <<cfg, clock>>

\* a body step that gives the slot of the window back when it rejects the request
BodyReadRefunds(r, body) ==
  /\ req[r].pc = "body"
  /\ LET s == HandleBody(req[r], body, r)
         k == s.entry.id
         refund == /\ s.pc = "done" /\ s.limiter = "admitted"
                   /\ s.res[1].status \in {400, 413}
     IN /\ req' = [req EXCEPT ![r] = s]
        /\ rateBuckets' = IF refund /\ k \in DOMAIN rateBuckets /\ rateBuckets[k] # <<>>
                             THEN [rateBuckets EXCEPT
                                     ![k] = SubSeq(@, 1, Len(@) - 1)]
                             ELSE rateBuckets
  /\ UNCHANGED <<cfg, clock, admitted>>

\* readJsonBody settles
BodyRead(r, body) ==
  /\ req[r].pc = "body"
  /\ req' = [req EXCEPT ![r] = HandleBody(req[r], body, r)]
  /\ UNCHANGED <<cfg, clock, rateBuckets, admitted>>

\* the task runner settles
RunnerSettles(r, result) ==
  /\ req[r].pc \in {"syncRunner", "asyncRunner"}
  /\ req' = [req EXCEPT ![r] = IF req[r].pc = "syncRunner"
                                 THEN SyncSettled(req[r], result)
                                 ELSE AsyncSettled(req[r], result)]
  /\ UNCHANGED <<cfg, clock, rateBuckets, admitted>>

\* the callback POST settles
CallbackSettles(r, outcome) ==
  /\ req[r].pc \in {"cbOk", "cbErr"}
  /\ req' = [req EXCEPT ![r] = CallbackSettled(req[r], outcome)]
  /\ UNCHANGED <<cfg, clock, rateBuckets, admitted>>

\* the request is over: nothing of it is held any more
Release(r) ==
  /\ req[r].pc = "done"
  /\ req' = [req EXCEPT ![r] = IdleSlot]
  /\ UNCHANGED <<cfg, clock, rateBuckets, admitted>>

\* time passes
Tick ==
  /\ clock < MaxTicks * TickMs
  /\ clock' = clock + TickMs
  /\ UNCHANGED <<cfg, rateBuckets, req, admitted>>

\* the configuration is reloaded
Reload(c) ==
  /\ c # cfg
  /\ cfg' = c
  /\ UNCHANGED <<clock, rateBuckets, req, admitted>>

(***************************************************************************)
(* Spec: requests served one after the other (one slot), with every        *)
(* request, body, runner result and callback outcome of the environment,   *)
(* under a configuration that may be reloaded at any time.                 *)
(***************************************************************************)
Next ==
  \/ \E m \in Methods, u \in RequestUrls, tok \in Tokens : Arrive(1, m, u, tok)
  \/ \E body \in BodyResults : BodyRead(1, body)
  \/ \E result \in RunnerResults : RunnerSettles(1, result)
  \/ \E outcome \in FetchResults : CallbackSettles(1, outcome)
  \/ Release(1)
  \/ Tick
  \/ \E c \in Configs : Reload(c)

Spec == Init /\ [][Next]_vars

(***************************************************************************)
(* SpecConc: requests in flight at the same time, interleaving at their    *)
(* suspension points (body read, task runner, callback POST), under one    *)
(* configuration, with authorized POST requests to the two endpoints.      *)
(***************************************************************************)
ConcPathnames == { DefaultBasePath \o <<"/", "a">>, DefaultBasePath \o <<"/", "b">> }

ConcBodies ==
  { [ok |-> TRUE, value |-> JObject([message |-> JString(<<"m">>)])],
    [ok |-> TRUE, value |-> JObject([message |-> JString(<<"m">>),
                                     callbackUrl |-> JString(CallbackHttp)])] }

ConcRunnerResults == { [status |-> "ok", outputText |-> "hello"],
                       [status |-> "error", error |-> "boom"] }

ConcFetchResults == {"2xx", "neterr"}

InitConc ==
  /\ cfg \in {CfgWide, CfgTight}
  /\ clock = 0
  /\ rateBuckets = EmptyMap
  /\ req = [r \in Slots |-> IdleSlot]
  /\ admitted = EmptyMap

NextConc ==
  \/ \E r \in Slots, p \in ConcPathnames : Arrive(r, "POST", p, <<"x">>)
  \/ \E r \in Slots, body \in ConcBodies : BodyRead(r, body)
  \/ \E r \in Slots, result \in ConcRunnerResults : RunnerSettles(r, result)
  \/ \E r \in Slots, outcome \in ConcFetchResults : CallbackSettles(r, outcome)
  \/ \E r \in Slots : Release(r)
  \/ Tick

SpecConc == InitConc /\ [][NextConc]_vars

(***************************************************************************)
(* SpecResolve: the resolver applied to every raw configuration of a       *)
(* bounded family (the feature switch, the entries list, the base path and *)
(* the rate-limit object each range over their cases), and the router       *)
(* serving single requests under the snapshot, on paths built from the      *)
(* resolved base path.                                                      *)
(***************************************************************************)
\* an object without the field, or the object literal { f: v } for each v
Optional(f, values) == { <<>> } \cup { [x \in {f} |-> v] : v \in values }

\* endpoints.enabled
RawEnabled == {TRUE, FALSE}

EntryBlank == [id |-> <<" ", "\r">>]
EntrySpaced == [id |-> <<" ", "a">>, mode |-> "async"]

\* endpoints.entries
RawEntryLists == { <<>>, <<EntryBlank>>, <<EntryBlank, EntryB>>, <<EntryA, EntryB>>,
                   <<EntrySpaced>> }

\* endpoints.basePath
RawBasePaths == { <<>>, <<" ">>, <<"/">>, <<"/", "/">>, <<"x">>, <<"/", "x">>,
                  <<"/", "x", "/">>, <<"\t", "/", "x", "/", "/", "\n">> }

\* endpoints.rateLimit: an object of two optional numbers, positive when given
\* (EndpointRateLimitSchema)
RawRateLimits == { <<>>,
                   [maxRequests |-> 2], [windowSeconds |-> 1],
                   [maxRequests |-> 1, windowSeconds |-> 1] }

RawConfigs ==
  { <<>> } \cup
  { [endpoints |-> e @@ l @@ b @@ rl] :
      e \in Optional("enabled", RawEnabled), l \in Optional("entries", RawEntryLists),
      b \in Optional("basePath", RawBasePaths),
      rl \in Optional("rateLimit", RawRateLimits) }

\* the base path the requests are built from
BasePathOf(c) ==
  IF resolveEndpointsConfig(c) = Null THEN DefaultBasePath
  ELSE resolveEndpointsConfig(c).basePath

\* req.url: targets at, under, beside and away from the base path, with a query,
\* with a ".." segment that is resolved and one that the runtime keeps, one that
\* new URL cannot parse; and targets with a scheme: http, a scheme that is not
\* special with a path of ".." alone, and a file URL whose first segment starts
\* like a drive letter
PathnamesUnder(basePath) ==
  { p \in { basePath, basePath \o <<"/">>, basePath \o <<"/", "a">>,
            basePath \o <<"/", "/", "a">>, basePath \o <<"/", "a", "/">>,
            basePath \o <<"/", "z">>, basePath \o <<"X">>, basePath \o <<"X", "/", "a">>,
            basePath \o <<"/", "a", "?", "q">>,
            basePath \o <<"/", "z", "/", ".", ".", "/", "a">>,
            basePath \o <<"/", ".", "x", "/", ".", ".", "/", "a">>,
            <<"/", "o">>, <<"/", "/">> } : StartsWith(p, <<"/">>) }
  \cup { <<"H", "T", "T", "P", ":">> \o basePath \o <<"/", "a">>,
         <<"x", ":", "/", ".", ".">>,
         <<"f", "i", "l", "e", ":", "/", "/", "/", "c", ":", "d", "/", ".", ".", "/", "a">> }

ResolveTokens == { Undefined, <<"x">> }

ResolveBodies == { [ok |-> FALSE, error |-> "payload too large"] }

InitResolve ==
  /\ cfg \in RawConfigs
  /\ clock = 0
  /\ rateBuckets = EmptyMap
  /\ req = [r \in Slots |-> IdleSlot]
  /\ admitted = EmptyMap

NextResolve ==
  \/ \E m \in Methods, p \in PathnamesUnder(BasePathOf(cfg)), tok \in ResolveTokens :
       Arrive(1, m, p, tok)
  \/ \E body \in ResolveBodies : BodyRead(1, body)
  \/ Release(1)

SpecResolve == InitResolve /\ [][NextResolve]_vars

(***************************************************************************)
(* SpecWindow: SpecConc with the history of the admissions kept. Requests  *)
(* in flight at the same time interleave at the suspension points after    *)
(* the check (body read, task runner) while the clock advances, under one  *)
(* configuration with a rate limit, for the requests of one endpoint.       *)
(***************************************************************************)
WindowPathnames == { DefaultBasePath \o <<"/", "a">> }

WindowBodies == { [ok |-> TRUE, value |-> JObject([message |-> JString(<<"m">>)])] }

WindowRunnerResults == { [status |-> "ok", outputText |-> "hello"] }

NextWindow ==
  \/ \E r \in Slots, p \in WindowPathnames : ArriveLogged(r, "POST", p, <<"x">>)
  \/ \E r \in Slots, body \in WindowBodies : BodyRead(r, body)
  \/ \E r \in Slots, result \in WindowRunnerResults : RunnerSettles(r, result)
  \/ \E r \in Slots : Release(r)
  \/ Tick

SpecWindow == InitConc /\ [][NextWindow]_vars

(***************************************************************************)
(* SpecLive: requests in flight at the same time, where every task-runner  *)
(* call and every callback POST eventually settles (the handler's          *)
(* continuation then runs: nothing else is needed to schedule it).         *)
(***************************************************************************)
InitLive ==
  /\ cfg = CfgOpen
  /\ clock = 0
  /\ rateBuckets = EmptyMap
  /\ req = [r \in Slots |-> IdleSlot]
  /\ admitted = EmptyMap

Settling ==
  \A r \in Slots :
    /\ WF_vars(\E result \in ConcRunnerResults : RunnerSettles(r, result))
    /\ WF_vars(\E outcome \in ConcFetchResults : CallbackSettles(r, outcome))

SpecLive == InitLive /\ [][NextConc]_vars /\ Settling

(***************************************************************************)
(* SpecFrame: Spec with one outcome of the run and of the callback: every  *)
(* request, body and configuration reload, served one after the other,     *)
(* for what the steps of the handler do to the buckets.                    *)
(***************************************************************************)
FrameFetchResults == {"2xx"}

NextFrame ==
  \/ \E m \in Methods, u \in RequestUrls, tok \in Tokens : Arrive(1, m, u, tok)
  \/ \E body \in BodyResults : BodyRead(1, body)
  \/ \E result \in WindowRunnerResults : RunnerSettles(1, result)
  \/ \E outcome \in FrameFetchResults : CallbackSettles(1, outcome)
  \/ Release(1)
  \/ Tick
  \/ \E c \in Configs : Reload(c)

SpecFrame == Init /\ [][NextFrame]_vars

(***************************************************************************)
(* Vocabulary of the properties: what a request is, read from the request  *)
(* itself, and what the handler did for it, read from the slot.            *)
(***************************************************************************)
Max(a, b) == IF a >= b THEN a ELSE b

TimestampsOf(buckets, k) == IF k \in DOMAIN buckets THEN buckets[k] ELSE <<>>

\* the timestamps of a bucket that lie inside the window that ends at `now`
InWindow(ts, now, windowMs) == { i \in DOMAIN ts : ts[i] > now - windowMs }

Statuses(r) == [i \in DOMAIN req[r].res |-> req[r].res[i].status]

\* the handler of slot r has just run from its start up to its first await
Started(r) == req[r].pc = "idle" /\ req'[r].pc # "idle"

\* ... and it called isRateLimited on the way
Checked(r) == Started(r) /\ req'[r].limiter # "none"

\* the request was accepted by an async endpoint (202 written)
Accepted(r) == 202 \in { req[r].res[i].status : i \in DOMAIN req[r].res }

\* the body carries a callbackUrl: a string that is not empty after trimming
BodyHasCallback(body) ==
  /\ body.ok /\ body.value.t = "object"
  /\ Has(body.value.o, "callbackUrl")
  /\ body.value.o.callbackUrl.t = "string"
  /\ \E i \in DOMAIN body.value.o.callbackUrl.s :
        body.value.o.callbackUrl.s[i] \notin WhiteSpace

\* the body carries a message: a string that is not empty after trimming
BodyHasMessage(body) ==
  /\ body.ok /\ body.value.t = "object"
  /\ Has(body.value.o, "message")
  /\ body.value.o.message.t = "string"
  /\ \E i \in DOMAIN body.value.o.message.s : body.value.o.message.s[i] \notin WhiteSpace

\* the effective mode of the endpoint a request was routed to
EffectiveMode(r) ==
  IF Has(req[r].entry, "mode") /\ req[r].entry.mode = "async" THEN "async" ELSE "sync"

\* the task-runner call of a request failed: the runner threw or reported an error
RunnerFailed(result) == Has(result, "threw") \/ result.status = "error"

(***************************************************************************)
(* C1 - every accepted async request gets exactly one callback POST         *)
(* attempt once its task-runner call has resolved, whatever the runner and  *)
(* the POST do: never zero attempts, never two.                             *)
(***************************************************************************)
C1_ExactlyOneCallbackAttempt ==
  \A r \in Slots :
    Accepted(r) =>
      /\ Len(req[r].posts) <= 1
      /\ req[r].pc \in {"cbOk", "cbErr", "done"} => Len(req[r].posts) = 1

(***************************************************************************)
(* C2 - after every rate-limit check every retained timestamp is inside     *)
(* the window of that check and the retained count does not exceed the      *)
(* maxRequests of that check; an accepted check raises the count by one.    *)
(***************************************************************************)
C2_RetainedInWindow(r) ==
  LET rl == resolveEndpointsConfig(cfg).rateLimit
      after == rateBuckets'[req'[r].entry.id]
  IN \A i \in DOMAIN after : after[i] > clock - rl.windowSeconds * MsPerSecond

C2_AcceptedAddsOne(r) ==
  LET rl == resolveEndpointsConfig(cfg).rateLimit
      k == req'[r].entry.id
      before == TimestampsOf(rateBuckets, k)
  IN req'[r].limiter = "admitted" =>
       Len(rateBuckets'[k]) =
         Cardinality(InWindow(before, clock, rl.windowSeconds * MsPerSecond)) + 1

\* the claim as stated: the count never exceeds the maxRequests of the check
C2_Original ==
  [][\A r \in Slots : Checked(r) =>
        /\ C2_RetainedInWindow(r)
        /\ C2_AcceptedAddsOne(r)
        /\ Len(rateBuckets'[req'[r].entry.id])
             <= resolveEndpointsConfig(cfg).rateLimit.maxRequests]_vars

\* C2 as amended: the count does not exceed the larger of the maxRequests of the
\* check and the count retained before the check (a limit lowered by a reload
\* does not shrink a bucket below what is still inside the window)
C2_Amended ==
  [][\A r \in Slots : Checked(r) =>
        /\ C2_RetainedInWindow(r)
        /\ C2_AcceptedAddsOne(r)
        /\ Len(rateBuckets'[req'[r].entry.id])
             <= Max(resolveEndpointsConfig(cfg).rateLimit.maxRequests,
                    Len(TimestampsOf(rateBuckets, req'[r].entry.id)))]_vars

\* a check rejected under a lowered limit: the bucket keeps more than maxRequests
C2_Witness ==
  \E r \in Slots :
    /\ req[r].limiter = "rejected"
    /\ cfg = CfgTight
    /\ Len(rateBuckets[req[r].entry.id]) > CfgTight.endpoints.rateLimit.maxRequests
    /\ \A i \in DOMAIN rateBuckets[req[r].entry.id] :
         rateBuckets[req[r].entry.id][i] > clock - MsPerSecond

(***************************************************************************)
(* C3 - a request that reaches the rate-limit step with a configured limit  *)
(* is rejected (429 "Rate limit exceeded", Retry-After = windowSeconds)     *)
(* exactly when its bucket already holds at least maxRequests timestamps    *)
(* strictly greater than now - windowMs; a rejected request is not          *)
(* recorded, an admitted one is recorded with `now` and proceeds.           *)
(***************************************************************************)
C3_Decision(r) ==
  LET rl == resolveEndpointsConfig(cfg).rateLimit
      windowMs == rl.windowSeconds * MsPerSecond
      k == req'[r].entry.id
      before == TimestampsOf(rateBuckets, k)
      recent == SelectSeq(before, LAMBDA t : clock - t < windowMs)
  IN /\ req'[r].limiter = "rejected" <=> Len(recent) >= rl.maxRequests
     /\ req'[r].limiter = "rejected" =>
          /\ req'[r].res = << [status |-> 429, ok |-> FALSE,
                               error |-> "Rate limit exceeded",
                               retryAfter |-> ToDecimal(rl.windowSeconds)] >>
          /\ req'[r].pc = "done" /\ req'[r].handled = "true"
          /\ rateBuckets'[k] = recent
     /\ req'[r].limiter = "admitted" =>
          /\ req'[r].res = <<>> /\ req'[r].pc = "body"
          /\ rateBuckets'[k] = Append(recent, clock)

\* the request got past the auth step under a snapshot with a rate limit
C3_Reaches(r) ==
  /\ Started(r)
  /\ req'[r].entry # Null
  /\ 401 \notin { req'[r].res[i].status : i \in DOMAIN req'[r].res }
  /\ resolveEndpointsConfig(cfg).rateLimit # Null

C3_RejectedIffWindowFull ==
  [][\A r \in Slots : /\ C3_Reaches(r) => Checked(r)
                      /\ Checked(r) => C3_Decision(r)]_vars

\* with maxRequests = 2: two requests admitted, a third inside the window rejected
C3_Witness ==
  \E r \in Slots :
    /\ cfg = CfgWide /\ clock = TickMs
    /\ req[r].limiter = "rejected"
    /\ req[r].res[1].status = 429 /\ req[r].res[1].retryAfter = <<"1">>
    /\ rateBuckets[req[r].entry.id] = <<0, 0>>

(***************************************************************************)
(* C4 - with a non-empty token set a request gets past the auth step only   *)
(* with a token equal to a configured value, and the label handed to the    *)
(* task runner is the label of that value; every configured value is        *)
(* accepted; anything else is answered 401 "Unauthorized" and the task      *)
(* runner is never invoked.  With an empty token set every request passes,  *)
(* with no label.                                                           *)
(***************************************************************************)
C4_AuthGate ==
  \A r \in Slots :
    req[r].entry # Null =>
      LET tm == req[r].entry.tokenMap
          unauthorized == req[r].res = <<JsonError(401, "Unauthorized")>>
          labels == { req[r].calls[i].tokenName : i \in DOMAIN req[r].calls }
      IN IF DOMAIN tm = {}
           THEN ~unauthorized /\ req[r].tokenName = Undefined /\ labels \subseteq {Undefined}
           ELSE /\ unauthorized <=> req[r].token \notin DOMAIN tm
                /\ unauthorized =>
                     /\ req[r].pc = "done" /\ req[r].handled = "true"
                     /\ req[r].calls = <<>> /\ req[r].limiter = "none"
                     /\ req[r].body = Null
                /\ ~unauthorized =>
                     /\ req[r].tokenName = tm[req[r].token]
                     /\ labels \subseteq {tm[req[r].token]}

\* the second configured token, which has no name, reaches the task runner as "unnamed"
C4_Witness ==
  \E r \in Slots :
    /\ req[r].token = <<"y">>
    /\ req[r].entry # Null
    /\ DOMAIN req[r].entry.tokenMap = {<<"x">>, <<"y">>}
    /\ Len(req[r].calls) = 1
    /\ req[r].calls[1].tokenName = Unnamed

(***************************************************************************)
(* C5 - the task runner is invoked only when the presence of a callback URL *)
(* matches the effective mode (default sync): async with a callbackUrl that *)
(* is not empty after trimming, or sync with none; a mismatch is answered   *)
(* 400 with no task-runner invocation and no callback POST.                 *)
(***************************************************************************)
C5_ModeMatchesCallback ==
  \A r \in Slots :
    /\ req[r].calls # <<>> =>
         (EffectiveMode(r) = "async" <=> BodyHasCallback(req[r].body))
    /\ ( /\ req[r].body # Null
         /\ BodyHasMessage(req[r].body)
         /\ ~(EffectiveMode(r) = "async" <=> BodyHasCallback(req[r].body)) )
       => /\ Statuses(r) = <<400>>
          /\ req[r].calls = <<>> /\ req[r].posts = <<>>
          /\ req[r].pc = "done"

\* a sync endpoint is sent a callbackUrl
C5_Witness ==
  \E r \in Slots :
    /\ req[r].body # Null /\ BodyHasMessage(req[r].body) /\ BodyHasCallback(req[r].body)
    /\ EffectiveMode(r) = "sync"
    /\ Statuses(r) = <<400>> /\ req[r].calls = <<>>

(***************************************************************************)
(* C6 - for a request whose path matches the base path the response is      *)
(* that of the first failing step in the order: method (405, Allow: POST),  *)
(* empty id (404), unknown id (404), auth (401), rate limit (429), body     *)
(* (413 or 400), message (400), mode/callback (400); after a failing step   *)
(* no later step runs or has an effect.                                     *)
(***************************************************************************)
\* nothing after the auth step has happened: no bucket touched, no body read
C6_NothingLater(r) ==
  /\ rateBuckets' = rateBuckets
  /\ req'[r].limiter = "none" /\ req'[r].body = Null /\ req'[r].calls = <<>>
  /\ req'[r].pc = "done" /\ req'[r].handled = "true"

C6_Start(r) ==
  LET c == resolveEndpointsConfig(cfg)
      s == req'[r]
      id == SubPathOf(s.pathname, c.basePath)
      status == [i \in DOMAIN s.res |-> s.res[i].status]
  IN (c # Null /\ s.handled # "rejected" /\ ~PathMisses(s.pathname, c.basePath)) =>
     IF s.method # "POST"
       THEN s.res = <<MethodNotAllowed>> /\ s.entry = Null /\ C6_NothingLater(r)
     ELSE IF id = <<>>
       THEN /\ status = <<404>> /\ s.res[1].error = "Endpoint id required in path"
            /\ s.entry = Null /\ C6_NothingLater(r)
     ELSE IF id \notin DOMAIN c.entries
       THEN /\ status = <<404>> /\ s.res[1].error = "Unknown endpoint"
            /\ s.entry = Null /\ C6_NothingLater(r)
     ELSE IF DOMAIN c.entries[id].tokenMap # {}
             /\ s.token \notin DOMAIN c.entries[id].tokenMap
       THEN status = <<401>> /\ C6_NothingLater(r)
     ELSE IF c.rateLimit # Null
             /\ Cardinality(InWindow(TimestampsOf(rateBuckets, c.entries[id].id), clock,
                                     c.rateLimit.windowSeconds * MsPerSecond))
                  >= c.rateLimit.maxRequests
       THEN /\ status = <<429>> /\ s.body = Null /\ s.calls = <<>>
            /\ s.pc = "done" /\ s.handled = "true"
     ELSE s.res = <<>> /\ s.pc = "body" /\ s.handled = "pending"

C6_Body(r) ==
  LET s == req'[r]
      status == [i \in DOMAIN s.res |-> s.res[i].status]
      mismatch == ~(EffectiveMode(r) = "async" <=> BodyHasCallback(s.body))
  IN /\ rateBuckets' = rateBuckets
     /\ IF ~s.body.ok
          THEN /\ status = <<IF s.body.error = "payload too large" THEN 413 ELSE 400>>
               /\ s.calls = <<>> /\ s.pc = "done"
        ELSE IF ~BodyHasMessage(s.body)
          THEN /\ status = <<400>> /\ s.res[1].error = "message is required"
               /\ s.calls = <<>> /\ s.pc = "done"
        ELSE IF mismatch
          THEN /\ status = <<400>> /\ s.res[1].error # "message is required"
               /\ s.calls = <<>> /\ s.pc = "done"
        ELSE Len(s.calls) = 1 /\ s.pc \in {"syncRunner", "asyncRunner"}

C6_FirstFailingStep ==
  [][\A r \in Slots : /\ Started(r) => C6_Start(r)
                      /\ (req[r].pc = "body" /\ req'[r].pc # "body") => C6_Body(r)]_vars

\* a request that is not a POST and carries a bad token is answered 405
C6_Witness ==
  \E r \in Slots :
    /\ req[r].method = "GET" /\ req[r].token = <<"q">>
    /\ req[r].url = DefaultBasePath \o <<"/", "a">>
    /\ req[r].pathname = DefaultBasePath \o <<"/", "a">>
    /\ req[r].res = <<MethodNotAllowed>>

(***************************************************************************)
(* C7 - when the handler reports handled = true exactly one response has    *)
(* been written on the connection (never none, never a second one: the      *)
(* async background work never writes to it); when it reports               *)
(* handled = false no response has been written.                            *)
(***************************************************************************)
C7_OneResponseIffHandled ==
  \A r \in Slots :
    /\ req[r].handled = "true" => Len(req[r].res) = 1
    /\ req[r].handled = "false" => req[r].res = <<>>

\* an async run whose background work made two POSTs and has ended
C7_Witness ==
  \E r \in Slots :
    /\ req[r].pc = "done" /\ req[r].handled = "true"
    /\ Len(req[r].posts) = 2 /\ Len(req[r].warns) = 1
    /\ Statuses(r) = <<202>>

(***************************************************************************)
(* C8 - in sync mode no response is written before the task-runner call     *)
(* resolves; on success the response is 200 {ok: true, reply}, on failure   *)
(* 500 {ok: false, error}; a sync request never causes a callback POST.     *)
(***************************************************************************)
C8_SyncAwaitsRunner ==
  \A r \in Slots :
    (req[r].calls # <<>> /\ EffectiveMode(r) = "sync") =>
      /\ req[r].posts = <<>>
      /\ req[r].pc \in {"syncRunner", "done"}
      /\ \A i \in DOMAIN req[r].calls : ~req[r].calls[i].responded
      /\ req[r].pc = "syncRunner" =>
           req[r].res = <<>> /\ req[r].handled = "pending"
      /\ req[r].pc = "done" =>
           IF RunnerFailed(req[r].result)
             THEN /\ Statuses(r) = <<500>>
                  /\ req[r].res[1].ok = FALSE
                  /\ req[r].res[1].error = DispatchOutcome(req[r].result, NoUuid).err
             ELSE /\ Statuses(r) = <<200>>
                  /\ req[r].res[1].ok = TRUE
                  /\ req[r].res[1].reply =
                       (IF Has(req[r].result, "outputText")
                          THEN req[r].result.outputText
                        ELSE IF Has(req[r].result, "summary")
                          THEN req[r].result.summary
                        ELSE "")

\* a sync request whose task runner reported an error
C8_Witness ==
  \E r \in Slots :
    /\ req[r].calls # <<>> /\ EffectiveMode(r) = "sync"
    /\ req[r].pc = "done"
    /\ req[r].result = [status |-> "error", error |-> "boom"]
    /\ req[r].res = <<JsonError(500, ErrorString("boom"))>>

(***************************************************************************)
(* C9 - in async mode the 202 {ok: true, runId} response is written before  *)
(* the task runner is invoked, and the outcome of the run is never written  *)
(* on the original connection.                                              *)
(***************************************************************************)
C9_AsyncRespondsFirst ==
  \A r \in Slots :
    (req[r].calls # <<>> /\ EffectiveMode(r) = "async") =>
      /\ \A i \in DOMAIN req[r].calls : req[r].calls[i].responded
      /\ req[r].res = << [status |-> 202, ok |-> TRUE, runId |-> req[r].runId] >>
      /\ req[r].runId # NoUuid
      /\ req[r].handled = "true"

\* an async run that failed and reported it through the callback only
C9_Witness ==
  \E r \in Slots :
    /\ req[r].calls # <<>> /\ EffectiveMode(r) = "async"
    /\ req[r].pc = "done"
    /\ RunnerFailed(req[r].result)
    /\ Len(req[r].posts) = 1 /\ req[r].posts[1].body.status = "error"
    /\ Statuses(r) = <<202>>

(***************************************************************************)
(* C10 - every request that passes all validation steps causes exactly one  *)
(* task-runner invocation, in sync and in async mode, whether it succeeds   *)
(* or fails (no retry, no deduplication), and the run identifiers of async  *)
(* requests are pairwise distinct.                                          *)
(***************************************************************************)
\* the request passed every validation step
C10_Validated(r) ==
  /\ req[r].body # Null
  /\ BodyHasMessage(req[r].body)
  /\ EffectiveMode(r) = "async" <=> BodyHasCallback(req[r].body)

C10_OneInvocationPerRequest ==
  /\ \A r \in Slots : Len(req[r].calls) = IF C10_Validated(r) THEN 1 ELSE 0
  /\ \A r1, r2 \in Slots :
       (r1 # r2 /\ req[r1].calls # <<>> /\ req[r2].calls # <<>>) =>
         /\ req[r1].calls[1].jobId # req[r2].calls[1].jobId
         /\ (Accepted(r1) /\ Accepted(r2)) => req[r1].runId # req[r2].runId

\* two identical async requests, one run failed: two invocations, two run identifiers
C10_Witness ==
  \E r1, r2 \in Slots :
    /\ r1 # r2
    /\ req[r1].pathname = req[r2].pathname /\ req[r1].body = req[r2].body
    /\ Accepted(r1) /\ Accepted(r2)
    /\ req[r1].pc = "done" /\ req[r1].result # Null /\ RunnerFailed(req[r1].result)
    /\ Len(req[r1].calls) = 1 /\ Len(req[r2].calls) = 1
    /\ req[r1].calls[1].endpointId = req[r2].calls[1].endpointId
    /\ req[r1].runId # req[r2].runId

(***************************************************************************)
(* C11 - the status of an async callback reflects the outcome of the task   *)
(* runner, not the delivery of the callback: when the runner succeeded,     *)
(* every callback POST of the run carries status "ok" with the reply, and   *)
(* a callback with status "error" is sent only when the runner failed.      *)
(***************************************************************************)
C11_StatusReflectsRunner ==
  \A r \in Slots :
    \A i \in DOMAIN req[r].posts :
      LET body == req[r].posts[i].body
          result == req[r].result
      IN /\ result # Null
         /\ body.status = "error" => RunnerFailed(result)
         /\ ~RunnerFailed(result) =>
              /\ body.status = "ok"
              /\ body.reply = DispatchOutcome(result, NoUuid).reply

(***************************************************************************)
(* C12 - no failure escapes the router: whatever the task runner and the    *)
(* callback POST do, the handler's promise resolves (handled is true or     *)
(* false, never a rejection), the background task of an async request       *)
(* never ends in a rejection that nobody handles, and a sync request whose  *)
(* runner failed is answered by one well-formed 500 JSON response.          *)
(***************************************************************************)
\* what the task runner and the callback POST do stays inside the handler
C12_DispatchContained(r) ==
    /\ req[r].calls # <<>> =>
         /\ req[r].escaped = <<>>
         /\ req[r].handled \in {"pending", "true"}
         /\ req[r].pc = "done" => req[r].handled = "true"
    /\ Accepted(r) => req[r].handled = "true"
    /\ (req[r].pc = "done" /\ EffectiveMode(r) = "sync" /\ req[r].result # Null
          /\ RunnerFailed(req[r].result)) =>
         /\ req[r].handled = "true"
         /\ Len(req[r].res) = 1
         /\ req[r].res[1].status = 500 /\ req[r].res[1].ok = FALSE
         /\ req[r].res[1].error = DispatchOutcome(req[r].result, NoUuid).err
         /\ DOMAIN req[r].res[1] = {"status", "ok", "error"}

\* the part of C12 about the runner and the callback, on every dispatched request
C12_DispatchOnly == \A r \in Slots : C12_DispatchContained(r)

\* C12 - the promise of the handler never rejects (for a request target that
\* new URL cannot parse it does), and what the runner and the callback do
\* stays inside the handler
C12_NoFailureEscapes ==
  \A r \in Slots :
    /\ req[r].escaped = <<>>
    /\ req[r].handled \in {"pending", "true", "false"}
    /\ req[r].pc = "done" => req[r].handled \in {"true", "false"}
    /\ C12_DispatchContained(r)

\* a state of C12_DispatchOnly: the runner failed and the error callback failed
\* too, and the background task is over
C12_Witness ==
  \E r \in Slots :
    /\ Accepted(r) /\ req[r].pc = "done"
    /\ RunnerFailed(req[r].result)
    /\ Len(req[r].posts) = 1 /\ req[r].posts[1].body.status = "error"
    /\ req[r].fetched = <<"neterr">>

(***************************************************************************)
(* C13 - the resolver returns null exactly when the feature is not          *)
(* explicitly enabled (enabled is not true) or no raw entry has an id that  *)
(* is non-empty after trimming; otherwise the snapshot has at least one     *)
(* entry. Under a null snapshot the router declines every request: it       *)
(* returns handled = false and writes nothing, whatever the path and the    *)
(* method.                                                                  *)
(***************************************************************************)
\* the feature switch of the raw configuration is the value true
C13_Enabled ==
  /\ Has(cfg, "endpoints") /\ Has(cfg.endpoints, "enabled")
  /\ cfg.endpoints.enabled = TRUE

\* the raw entries whose id has a character that is not white space
C13_ValidEntries ==
  LET raws == IF Has(cfg, "endpoints") /\ Has(cfg.endpoints, "entries")
                THEN cfg.endpoints.entries ELSE <<>>
  IN { i \in DOMAIN raws :
         \E j \in DOMAIN raws[i].id : raws[i].id[j] \notin WhiteSpace }

C13_NullSnapshotDeclines ==
  LET c == resolveEndpointsConfig(cfg) IN
  /\ (c = Null) <=> (~C13_Enabled \/ C13_ValidEntries = {})
  /\ c # Null => Cardinality(DOMAIN c.entries) >= 1
  /\ c = Null =>
       /\ rateBuckets = EmptyMap
       /\ \A r \in Slots :
            req[r].pc # "idle" =>
              /\ req[r].pc = "done" /\ req[r].handled = "false"
              /\ req[r].res = <<>> /\ req[r].calls = <<>>

\* enabled, with entries whose ids are all blank: a POST to an endpoint path falls through
C13_Witness ==
  /\ C13_Enabled
  /\ Has(cfg.endpoints, "entries") /\ cfg.endpoints.entries # <<>>
  /\ resolveEndpointsConfig(cfg) = Null
  /\ \E r \in Slots :
       /\ req[r].method = "POST"
       /\ req[r].url = DefaultBasePath \o <<"/", "a">>
       /\ req[r].pc = "done" /\ req[r].handled = "false" /\ req[r].res = <<>>

(***************************************************************************)
(* C14 - for every raw basePath (absent, empty, white space only, "/",      *)
(* slashes only, with or without leading or trailing slashes) the base      *)
(* path of a non-null snapshot starts with "/" and does not end with "/".   *)
(***************************************************************************)
C14_BasePathNormalized ==
  LET c == resolveEndpointsConfig(cfg) IN
  c # Null =>
    /\ c.basePath # <<>>
    /\ Head(c.basePath) = "/"
    /\ c.basePath[Len(c.basePath)] # "/"

(***************************************************************************)
(* C15 - when the raw basePath is unset, the empty string, or empty after   *)
(* trimming (white space only), the resolved base path is exactly           *)
(* "/endpoints".                                                            *)
(***************************************************************************)
C15_BlankBasePathDefaults ==
  LET c == resolveEndpointsConfig(cfg) IN
  (/\ c # Null
   /\ Has(cfg.endpoints, "basePath") =>
        \A i \in DOMAIN cfg.endpoints.basePath : cfg.endpoints.basePath[i] \in WhiteSpace)
    => c.basePath = DefaultBasePath

(***************************************************************************)
(* C16 - the resolved rate limit is non-null exactly when the raw           *)
(* rate-limit object is provided and at least one of maxRequests and        *)
(* windowSeconds is set (non-zero); when it is non-null, each field that    *)
(* is not set takes the value 60 and each field that is set keeps its       *)
(* value, so both resolved fields are positive; when it is null no request  *)
(* is ever rate-limited. The configurations are those the schema of the    *)
(* configuration file accepts: a field that is given is a positive         *)
(* integer.                                                                *)
(***************************************************************************)
\* the field f of the raw rate-limit object is set: present and not zero
C16_IsSet(f) ==
  /\ Has(cfg.endpoints, "rateLimit")
  /\ Has(cfg.endpoints.rateLimit, f)
  /\ cfg.endpoints.rateLimit[f] # 0

C16_RateLimitResolved ==
  LET c == resolveEndpointsConfig(cfg) IN
  c # Null =>
    /\ (c.rateLimit # Null) <=> (C16_IsSet("maxRequests") \/ C16_IsSet("windowSeconds"))
    /\ c.rateLimit # Null =>
         \A f \in {"maxRequests", "windowSeconds"} :
           /\ c.rateLimit[f] = IF C16_IsSet(f) THEN cfg.endpoints.rateLimit[f] ELSE 60
           /\ c.rateLimit[f] > 0
    /\ c.rateLimit = Null =>
         /\ rateBuckets = EmptyMap
         /\ \A r \in Slots :
              /\ req[r].limiter = "none"
              /\ \A i \in DOMAIN req[r].res : req[r].res[i].status # 429

\* a limit given by its window alone took 60 for maxRequests and admitted a request
C16_Witness ==
  /\ Has(cfg, "endpoints") /\ Has(cfg.endpoints, "rateLimit")
  /\ DOMAIN cfg.endpoints.rateLimit = {"windowSeconds"}
  /\ resolveEndpointsConfig(cfg) # Null
  /\ resolveEndpointsConfig(cfg).rateLimit
       = [maxRequests |-> 60, windowSeconds |-> cfg.endpoints.rateLimit.windowSeconds]
  /\ \E r \in Slots : req[r].limiter = "admitted"

(***************************************************************************)
(* C17 - with requests in flight at the same time, a clock that never goes  *)
(* back and a fixed limit, the number of requests admitted for one          *)
(* endpoint with timestamps inside any single window of windowSeconds       *)
(* never exceeds maxRequests, however the requests interleave: each check   *)
(* (prune, then append if admitted) is one step. A window is the interval   *)
(* (t - windowMs, t]; every set of admissions that fits in one window fits  *)
(* in the window that ends at the latest of them.                           *)
(***************************************************************************)
\* the admissions of log inside the window that ends at t
C17_InWindow(log, t, windowMs) ==
  { j \in DOMAIN log : t - windowMs < log[j] /\ log[j] <= t }

C17_AdmittedPerWindow ==
  LET rl == resolveEndpointsConfig(cfg).rateLimit
      windowMs == rl.windowSeconds * MsPerSecond
  IN \A k \in DOMAIN admitted :
       /\ \A i \in DOMAIN admitted[k] :
            Cardinality(C17_InWindow(admitted[k], admitted[k][i], windowMs))
              <= rl.maxRequests
       \* the bucket holds the latest admissions, and nothing else
       /\ k \in DOMAIN rateBuckets
       /\ Len(rateBuckets[k]) <= Len(admitted[k])
       /\ rateBuckets[k] = SubSeq(admitted[k],
                                  Len(admitted[k]) - Len(rateBuckets[k]) + 1,
                                  Len(admitted[k]))

\* more requests admitted over time than one window allows, one request rejected
\* while another one, admitted before it, is still waiting for its body or its run
C17_Witness ==
  \E k \in DOMAIN admitted, r1, r2 \in Slots :
    /\ Len(admitted[k]) > resolveEndpointsConfig(cfg).rateLimit.maxRequests
    /\ r1 # r2
    /\ req[r1].limiter = "rejected" /\ req[r1].entry.id = k
    /\ req[r2].limiter = "admitted" /\ req[r2].entry.id = k
    /\ req[r2].pc \in {"body", "syncRunner"}

(***************************************************************************)
(* C18 - if every task-runner call and every callback POST eventually       *)
(* settles, then every request whose run was started gets its response      *)
(* (sync: one response once the runner settled; async: the 202 is already   *)
(* written), every accepted async request reaches a callback delivery       *)
(* attempt, and its background task ends; other requests arriving or        *)
(* failing in the meantime change nothing.                                  *)
(***************************************************************************)
C18_EventuallyDelivered ==
  \A r \in Slots :
    /\ (req[r].pc = "syncRunner") ~>
         (req[r].pc = "done" /\ req[r].handled = "true" /\ Len(req[r].res) = 1)
    /\ (req[r].pc = "asyncRunner") ~> (Len(req[r].posts) >= 1)
    /\ (req[r].pc \in {"cbOk", "cbErr"}) ~> (req[r].pc = "done")

\* an async request delivered its callback although a sync request failed meanwhile
C18_Witness ==
  \E r1, r2 \in Slots :
    /\ r1 # r2
    /\ Accepted(r1) /\ req[r1].pc = "done" /\ Len(req[r1].posts) >= 1
    /\ req[r2].pc = "done" /\ req[r2].result # Null /\ RunnerFailed(req[r2].result)
    /\ EffectiveMode(r2) = "sync" /\ Statuses(r2) = <<500>>

(***************************************************************************)
(* C19 - the runId in the body of every callback POST of an async request   *)
(* is the runId of the 202 response of that same request, not the           *)
(* identifier the task runner's call returned and not the runId of another  *)
(* request in flight.                                                       *)
(***************************************************************************)
C19_CallbackCarriesRunId ==
  \A r \in Slots :
    \A i \in DOMAIN req[r].posts :
      LET body == req[r].posts[i].body IN
      /\ Accepted(r)
      /\ req[r].res[1].status = 202
      /\ body.runId = req[r].res[1].runId
      /\ body.runId # req[r].calls[1].jobId
      /\ \A q \in Slots \ {r} : Accepted(q) => body.runId # req[q].res[1].runId

\* two async requests in flight together, each with a callback posted, one of
\* them the error callback that follows a failed delivery
C19_Witness ==
  \E r1, r2 \in Slots :
    /\ r1 # r2
    /\ Accepted(r1) /\ Accepted(r2)
    /\ Len(req[r1].posts) = 2 /\ req[r1].posts[2].body.runId = req[r1].res[1].runId
    /\ Len(req[r2].posts) = 1 /\ req[r2].pc = "cbOk"

(***************************************************************************)
(* C20 - path routing: a request is handled only when its path is the base  *)
(* path or starts with the base path followed by "/" (a path that only has  *)
(* the base path as a string prefix falls through); the endpoint id is what *)
(* follows the base path, all leading slashes removed and nothing else      *)
(* changed: an empty id is answered 404 "Endpoint id required in path", an  *)
(* id that is not a key of the snapshot 404 "Unknown endpoint", and any     *)
(* other id selects the entry under that key.                               *)
(***************************************************************************)
\* the number of slashes that s starts with
C20_LeadingSlashes(s) ==
  CHOOSE n \in 0..Len(s) :
    /\ \A i \in 1..n : s[i] = "/"
    /\ n < Len(s) => s[n + 1] # "/"

C20_PathRouting ==
  LET c == resolveEndpointsConfig(cfg) IN
  c # Null =>
    \A r \in Slots :
      \* new URL threw: there is no path, nothing is routed and nothing written
      /\ req[r].handled = "rejected" =>
           req[r].res = <<>> /\ req[r].entry = Null /\ req[r].calls = <<>>
      /\ (req[r].pc # "idle" /\ req[r].handled # "rejected") =>
        LET p == req[r].pathname
            matches == \/ p = c.basePath
                       \/ /\ Len(p) > Len(c.basePath)
                          /\ SubSeq(p, 1, Len(c.basePath) + 1) = c.basePath \o <<"/">>
            rest == SubSeq(p, Len(c.basePath) + 1, Len(p))
            id == SubSeq(rest, C20_LeadingSlashes(rest) + 1, Len(rest))
        IN /\ (req[r].handled = "false") <=> ~matches
           /\ ~matches => req[r].res = <<>>
           /\ (matches /\ req[r].method = "POST") =>
                IF id = <<>>
                  THEN req[r].res = <<JsonError(404, "Endpoint id required in path")>>
                ELSE IF id \notin DOMAIN c.entries
                  THEN /\ Len(req[r].res) = 1
                       /\ req[r].res[1].status = 404
                       /\ req[r].res[1].error = "Unknown endpoint"
                ELSE /\ req[r].entry = c.entries[id]
                     /\ \A i \in DOMAIN req[r].res : req[r].res[i].status # 404

\* POST B//a selected the entry under "a", for a base path B other than the default
C20_Witness ==
  LET c == resolveEndpointsConfig(cfg) IN
  /\ c # Null /\ c.basePath = <<"/", "x">>
  /\ \E r \in Slots :
       /\ req[r].method = "POST"
       /\ req[r].pathname = c.basePath \o <<"/", "/", "a">>
       /\ req[r].pc = "body"
       /\ req[r].entry = c.entries[<<"a">>]

(***************************************************************************)
(* C21 - the rate-limit buckets are independent per endpoint: an admission  *)
(* check for one endpoint, whether it admits or rejects, leaves the bucket  *)
(* of every other endpoint as it was (and creates none), so traffic to one  *)
(* endpoint never changes whether a request to another one is admitted.     *)
(***************************************************************************)
C21_Frame(r) ==
  LET k == req'[r].entry.id IN
  /\ DOMAIN rateBuckets' = DOMAIN rateBuckets \cup {k}
  /\ \A other \in DOMAIN rateBuckets' \ {k} : rateBuckets'[other] = rateBuckets[other]

C21_BucketsIndependent == [][\A r \in Slots : Checked(r) => C21_Frame(r)]_vars

\* a request to b is admitted at a moment when the window of a is full
C21_Witness ==
  LET c == resolveEndpointsConfig(cfg) IN
  /\ c # Null /\ c.rateLimit # Null
  /\ \E r \in Slots :
       /\ req[r].limiter = "admitted" /\ req[r].entry.id = <<"b">>
       /\ <<"a">> \in DOMAIN rateBuckets
       /\ Len(FilterAfter(rateBuckets[<<"a">>],
                          clock - c.rateLimit.windowSeconds * MsPerSecond))
            >= c.rateLimit.maxRequests
       /\ rateBuckets[<<"b">>][Len(rateBuckets[<<"b">>])] = clock

(***************************************************************************)
(* C22 - every failed callback delivery, a network error as well as a       *)
(* non-2xx answer of the receiver, is logged as a warning and has no other  *)
(* effect: no further outbound request, nothing on the connection of the    *)
(* request; for the callback that reports a successful run and for the one  *)
(* that reports a failed run.                                               *)
(***************************************************************************)
\* the callback POSTs of slot r whose delivery failed
C22_FailedDeliveries(r) == { i \in DOMAIN req[r].fetched : req[r].fetched[i] # "2xx" }

C22_DeliveryFailureLoggedOnly ==
  \A r \in Slots :
    Accepted(r) =>
      \* one warning per failed delivery, next to the one of a failed run
      /\ Len(req[r].warns) =
           Cardinality(C22_FailedDeliveries(r))
             + (IF req[r].result # Null /\ RunnerFailed(req[r].result) THEN 1 ELSE 0)
      \* no outbound request after a failed delivery
      /\ \A i \in C22_FailedDeliveries(r) : Len(req[r].posts) <= i
      \* nothing on the connection
      /\ Statuses(r) = <<202>>

(***************************************************************************)
(* C23 - the bucket map changes only at the rate-limit step: a request      *)
(* that falls through, is answered 405, 404 or 401, or is handled under a   *)
(* snapshot without rate limit leaves every bucket as it was and creates    *)
(* none, so the keys of the buckets are ids of configured endpoints, never  *)
(* strings chosen by a caller; and a request that the limiter admitted and  *)
(* that is rejected afterwards with 413 or 400 keeps its place in the       *)
(* window.                                                                  *)
(***************************************************************************)
\* the ids of the endpoints of the configurations
C23_ConfiguredIds ==
  UNION { { c.endpoints.entries[i].id : i \in DOMAIN c.endpoints.entries } : c \in Configs }

C23_Step ==
  /\ rateBuckets' # rateBuckets => \E r \in Slots : Checked(r)
  /\ \A r \in Slots :
       /\ (Started(r) /\ ( \/ req'[r].handled \in {"false", "rejected"}
                           \/ \E i \in DOMAIN req'[r].res :
                                req'[r].res[i].status \in {405, 404, 401}
                           \/ resolveEndpointsConfig(cfg).rateLimit = Null ))
            => (rateBuckets' = rateBuckets /\ req'[r].limiter = "none")
       \* the steps after the check: body read, validation, run, callback
       /\ (req[r].pc # "idle" /\ req'[r] # req[r]) => rateBuckets' = rateBuckets
       \* admitted, then rejected by the body step: the timestamp stays
       /\ (req[r].pc = "body" /\ req[r].limiter = "admitted"
             /\ req'[r].pc = "done" /\ req'[r].res # <<>>
             /\ req'[r].res[1].status \in {400, 413})
            => /\ req[r].entry.id \in DOMAIN rateBuckets'
               /\ rateBuckets'[req[r].entry.id] = rateBuckets[req[r].entry.id]
               /\ rateBuckets'[req[r].entry.id] # <<>>
  /\ DOMAIN rateBuckets' \subseteq C23_ConfiguredIds

C23_BucketsChangeAtCheckOnly == [][C23_Step]_vars

\* admitted by the limiter, then rejected by the validation of the body (its
\* message is there): the only bucket still holds the timestamp of the request
C23_Witness ==
  \E r \in Slots :
    /\ req[r].pc = "done" /\ req[r].limiter = "admitted"
    /\ Statuses(r) = <<400>> /\ BodyHasMessage(req[r].body)
    /\ req[r].entry.id \in DOMAIN rateBuckets
    /\ clock \in { rateBuckets[req[r].entry.id][i] : i \in DOMAIN rateBuckets[req[r].entry.id] }
    /\ DOMAIN rateBuckets = {req[r].entry.id}

(***************************************************************************)
(* C24 - in every non-null snapshot each key of the mapping is the id of    *)
(* the endpoint definition it maps to (the trimmed id), also for raw ids    *)
(* with leading or trailing white space; hence the key of the rate-limit    *)
(* bucket and the endpointId given to the task runner are the id that       *)
(* appeared in the request path.                                            *)
(***************************************************************************)
C24_KeyIsEntryId ==
  LET c == resolveEndpointsConfig(cfg) IN
  c # Null =>
    /\ \A k \in DOMAIN c.entries : c.entries[k].id = k
    /\ DOMAIN rateBuckets \subseteq DOMAIN c.entries
    /\ \A r \in Slots :
         req[r].entry # Null =>
           /\ req[r].entry.id = SubPathOf(req[r].pathname, c.basePath)
           /\ \A i \in DOMAIN req[r].calls :
                req[r].calls[i].endpointId = SubPathOf(req[r].pathname, c.basePath)

====
